---- MODULE Spec2Model ----
(***************************************************************************)
(* Two-orbit extremal distance solver of Blender_Orbits_SolarSystem.py:    *)
(* orbit model, sampler cache, coarse search and pattern-search            *)
(* refinement, pair loop and summary table; with it the position formulas  *)
(* of median.py and of the moon scripts, the moon loop of the moon scripts *)
(* and the route table of Brachistochrone_Calc.py.                         *)
(*                                                                         *)
(* Numbers.  Python floats are modelled in fixed point:                    *)
(*   - an angle is an integer number of angle units, Deg units to the      *)
(*     degree, so 2*pi is TwoPi = 360 * Deg units;                         *)
(*   - a cosine or sine is an integer number of 1/Unit;                    *)
(*   - an eccentricity is an integer number of 1/Milli;                    *)
(*   - a length (a, r, x, y, z, a distance) is an integer number of        *)
(*     1/Milli AU.                                                         *)
(* Every product is divided back with rounding (RDiv), the fixed-point     *)
(* counterpart of the rounding of a float operation.  The sample count,    *)
(* the refinement step and the convergence floor are scaled with the angle *)
(* unit (see NUM_POINTS, StepDefault, Floor).                              *)
(***************************************************************************)
EXTENDS Integers, Sequences, FiniteSets, TLC

\* ------------------------------------------------------------------------
\* Fixed-point arithmetic
\* ------------------------------------------------------------------------

\* Fixed-point one of a cosine or sine.
Unit == 10000

\* Fixed-point one of an eccentricity; lengths are in 1/Milli AU.
Milli == 1000

\* Angle units per degree.
Deg == 16

\* 2*math.pi in angle units.
TwoPi == 360 * Deg

Abs(x) == IF x < 0 THEN -x ELSE x

\* a / b rounded to the nearest integer (b # 0): a float division.
RDiv(a, b) ==
    LET n == IF b < 0 THEN -a ELSE a
        d == Abs(b)
    IN  (2 * n + d) \div (2 * d)

\* Floats are not equally spaced: from one power of two to the next the
\* spacing doubles.  For angles this matters at the two ends of a revolution:
\* just below 2*pi the floats are farther apart than near 0.  The angle
\* unit is the spacing below Coarse; from Coarse on (2*pi included) only
\* every second value is a float.
Coarse == 4096

\* The float nearest to x, a tie going to the float with the even mantissa
\* (round-half-even): the rounding of the result of a float operation.
FloatRound(x) ==
    IF Abs(x) < Coarse \/ x % 2 = 0 THEN x
    ELSE IF (x + 1) % 4 = 0 THEN x + 1
    ELSE x - 1

\* round(Unit * cos(d degrees)) for d = 0..90.
CosTab ==
  << 10000, 9998, 9994, 9986, 9976, 9962, 9945, 9925, 9903, 9877, 9848, 9816, 9781,
     9744, 9703, 9659, 9613, 9563, 9511, 9455, 9397, 9336, 9272, 9205, 9135, 9063,
     8988, 8910, 8829, 8746, 8660, 8572, 8480, 8387, 8290, 8192, 8090, 7986, 7880,
     7771, 7660, 7547, 7431, 7314, 7193, 7071, 6947, 6820, 6691, 6561, 6428, 6293,
     6157, 6018, 5878, 5736, 5592, 5446, 5299, 5150, 5000, 4848, 4695, 4540, 4384,
     4226, 4067, 3907, 3746, 3584, 3420, 3256, 3090, 2924, 2756, 2588, 2419, 2250,
     2079, 1908, 1736, 1564, 1392, 1219, 1045, 872, 698, 523, 349, 175, 0 >>

\* Cosine of a whole number of degrees, 0 <= d <= 360.
CosDeg(d) ==
    IF d <= 90 THEN CosTab[d + 1]
    ELSE IF d <= 180 THEN -CosTab[180 - d + 1]
    ELSE IF d <= 270 THEN -CosTab[d - 180 + 1]
    ELSE CosTab[360 - d + 1]

\* The cosine of every angle of one revolution: the table, interpolated
\* linearly between whole degrees.
CosValues ==
    [ u \in 0..(TwoPi - 1) |->
        LET d == u \div Deg
            f == u % Deg
        IN  IF f = 0 THEN CosDeg(d)
            ELSE RDiv(CosDeg(d) * (Deg - f) + CosDeg(d + 1) * f, Deg) ]

\* math.cos of an angle in angle units; periodic with period TwoPi.
cos(t) == CosValues[t % TwoPi]

\* math.sin: sin(t) = cos(t - pi/2).
sin(t) == cos(t + 3 * (TwoPi \div 4))

\* math.radians of a whole number of degrees.
radians(d) == d * Deg

\* A distance d (a float in the source) is represented by Sq(d), its square
\* with the sign of d: Sq is strictly increasing, so every comparison of two
\* distances is the comparison of their representations, and no precision
\* is lost to a rounded square root.
Sq(d) == IF d < 0 THEN -(d * d) ELSE d * d

\* -d in this representation.
Neg(sq) == -sq

\* (p - q).length of two vectors, as Sq of the length.
Length(p, q) ==
    LET dx == p[1] - q[1]
        dy == p[2] - q[2]
        dz == p[3] - q[3]
    IN  dx * dx + dy * dy + dz * dz

\* ------------------------------------------------------------------------
\* Orbit data
\* ------------------------------------------------------------------------

\* The table of orbital elements (the dict `planets`): a in 1/Milli AU, e in
\* 1/Milli, angles in whole degrees.  A small table with the shapes the
\* solver is asked about: two concentric circles, the same two circles in a
\* tilted plane with another periapsis argument, an ellipse and its twin, and
\* an element set with e = 1.
planets ==
    [ CircA  |-> [a |-> 1000, e |-> 0,    inc |-> 0,  node |-> 0,  peri |-> 0],
      CircB  |-> [a |-> 1500, e |-> 0,    inc |-> 0,  node |-> 0,  peri |-> 0],
      CircC  |-> [a |-> 1000, e |-> 0,    inc |-> 20, node |-> 50, peri |-> 70],
      CircD  |-> [a |-> 1500, e |-> 0,    inc |-> 20, node |-> 50, peri |-> 70],
      Ell    |-> [a |-> 1200, e |-> 300,  inc |-> 10, node |-> 30, peri |-> 60],
      Twin   |-> [a |-> 1200, e |-> 300,  inc |-> 10, node |-> 30, peri |-> 60],
      Parab  |-> [a |-> 800,  e |-> 1000, inc |-> 5,  node |-> 15, peri |-> 25] ]

PlanetNames == DOMAIN planets

\* NUM_POINTS (500 in the source) and CURVE_RESOLUTION (100 in the source),
\* scaled down with the angle unit; NUM_POINTS - 1 stays odd, so that, as
\* with 499 intervals, no two samples are half a revolution apart.
NUM_POINTS == 8

CURVE_RESOLUTION == 4

\* precompute_trig_values(data)
precompute_trig_values(data) ==
    LET inc_rad  == radians(data.inc)
        node_rad == radians(data.node)
        peri_rad == radians(data.peri)
    IN  [ a        |-> data.a,
          e        |-> data.e,
          cos_inc  |-> cos(inc_rad),
          sin_inc  |-> sin(inc_rad),
          cos_node |-> cos(node_rad),
          sin_node |-> sin(node_rad),
          cos_peri |-> cos(peri_rad),
          sin_peri |-> sin(peri_rad) ]

\* The denominator with the eccentricity left out.
DenominatorNoE(data, true_anomaly) == Unit + cos(true_anomaly)

\* The denominator 1 + e * math.cos(true_anomaly), in 1/Unit.
Denominator(data, true_anomaly) ==
    Unit + RDiv(data.e * cos(true_anomaly), Milli)

\* calculate_point_on_orbit raises ZeroDivisionError at this anomaly.
ZeroDivision(data, true_anomaly) == Denominator(data, true_anomaly) = 0

\* The radius with 1 - e in place of 1 - e**2.
RadiusNoSquare(data, true_anomaly) ==
    RDiv(data.a * (Milli - data.e) * (Unit \div Milli),
         Denominator(data, true_anomaly))

\* r = a * (1 - e**2) / (1 + e * math.cos(true_anomaly))
Radius(data, true_anomaly) ==
    RDiv(data.a * (Milli - RDiv(data.e * data.e, Milli)) * (Unit \div Milli),
         Denominator(data, true_anomaly))

\* calculate_point_on_orbit(data, true_anomaly), where it does not raise.
PointFormula(data, true_anomaly) ==
    LET r == Radius(data, true_anomaly)
        x == RDiv(r * cos(true_anomaly), Unit)
        y == RDiv(r * sin(true_anomaly), Unit)
        x_peri == RDiv(x * data.cos_peri - y * data.sin_peri, Unit)
        y_peri == RDiv(x * data.sin_peri + y * data.cos_peri, Unit)
        y_inc == RDiv(y_peri * data.cos_inc, Unit)
        z_inc == RDiv(y_peri * data.sin_inc, Unit)
        x_final == RDiv(x_peri * data.cos_node - y_inc * data.sin_node, Unit)
        y_final == RDiv(x_peri * data.sin_node + y_inc * data.cos_node, Unit)
    IN  << x_final, y_final, z_inc >>

\* The trig records of the table `planets`.
TrigRecords == { precompute_trig_values(planets[name]) : name \in PlanetNames }

\* calculate_point_on_orbit tabulated over the trig records and the angles
\* 0..TwoPi (a pure function: the table is its graph).
PointTable ==
    [ data \in TrigRecords |->
        [ t \in 0..TwoPi |->
            IF ZeroDivision(data, t) THEN << 0, 0, 0 >>
            ELSE PointFormula(data, t) ] ]

calculate_point_on_orbit(data, true_anomaly) == PointTable[data][true_anomaly]

\* A float that is no finite number (nan or inf): what a numpy division by
\* zero yields, with a RuntimeWarning and without raising.  Every operation
\* on it yields it again.
NaN == -(2 ^ 30)

\* The position whose coordinates are no finite numbers.
NaNPoint == << NaN, NaN, NaN >>

\* median.py, calculate_orbit_point(a, e, i, node, peri, true_anomaly), angles
\* in radians: the radius of line 21 and the three matrix products of lines
\* 42-45.  A matrix is a tuple of rows and a row times a vector is one
\* rounded sum.
MatVec(mat, vec) ==
    [ k \in 1..3 |->
        RDiv(mat[k][1] * vec[1] + mat[k][2] * vec[2] + mat[k][3] * vec[3], Unit) ]

\* 1 + e * np.cos(true_anomaly) of median.py, in 1/Unit.
OrbitPointDenominator(e, true_anomaly) ==
    Unit + RDiv(e * cos(true_anomaly), Milli)

\* r of median.py (line 21): np.cos returns a numpy float, and a division of
\* numpy floats by zero does not raise.
OrbitPointRadius(a, e, true_anomaly) ==
    IF OrbitPointDenominator(e, true_anomaly) = 0 THEN NaN
    ELSE RDiv(a * (Milli - RDiv(e * e, Milli)) * (Unit \div Milli),
              OrbitPointDenominator(e, true_anomaly))

\* The rotations of lines 27-45 applied to the point at radius r.
OrbitPointRotated(r, i, node, peri, true_anomaly) ==
    LET x == RDiv(r * cos(true_anomaly), Unit)
        y == RDiv(r * sin(true_anomaly), Unit)
        R_peri == << << cos(peri), -sin(peri), 0 >>,
                     << sin(peri), cos(peri), 0 >>,
                     << 0, 0, Unit >> >>
        R_i == << << Unit, 0, 0 >>,
                  << 0, cos(i), -sin(i) >>,
                  << 0, sin(i), cos(i) >> >>
        R_node == << << cos(node), -sin(node), 0 >>,
                     << sin(node), cos(node), 0 >>,
                     << 0, 0, Unit >> >>
    IN  MatVec(R_node, MatVec(R_i, MatVec(R_peri, << x, y, 0 >>)))

calculate_orbit_point(a, e, i, node, peri, true_anomaly) ==
    LET r == OrbitPointRadius(a, e, true_anomaly)
    IN  IF r = NaN THEN NaNPoint
        ELSE OrbitPointRotated(r, i, node, peri, true_anomaly)

\* Blender_Orbits_Jupiter.py, create_orbital_curve: the position computed in
\* the loop body (lines 165-181) for the angle t of theta, from the elements
\* `data` (angles in degrees) and an integer scale_factor.  The cosines are
\* np.cos of numpy floats, so a zero denominator does not raise.
OrbitalCurveRadius(data, scale_factor, t) ==
    LET a == data.a * scale_factor
        e == data.e
        den == Unit + RDiv(e * cos(t), Milli)
    IN  IF den = 0 THEN NaN
        ELSE RDiv(a * (Milli - RDiv(e * e, Milli)) * (Unit \div Milli), den)

OrbitalCurvePoint(data, scale_factor, t) ==
    LET inc == radians(data.inc)
        node == radians(data.node)
        peri == radians(data.peri)
        r == OrbitalCurveRadius(data, scale_factor, t)
        x == RDiv(r * cos(t), Unit)
        y == RDiv(r * sin(t), Unit)
        z == 0
        x_peri == RDiv(x * cos(peri) - y * sin(peri), Unit)
        y_peri == RDiv(x * sin(peri) + y * cos(peri), Unit)
        z_peri == z
        y_inc == RDiv(y_peri * cos(inc) - z_peri * sin(inc), Unit)
        z_inc == RDiv(y_peri * sin(inc) + z_peri * cos(inc), Unit)
        x_final == RDiv(x_peri * cos(node) - y_inc * sin(node), Unit)
        y_final == RDiv(x_peri * sin(node) + y_inc * cos(node), Unit)
        z_final == z_inc
    IN  IF r = NaN THEN NaNPoint ELSE << x_final, y_final, z_final >>

\* ------------------------------------------------------------------------
\* Sampler
\* ------------------------------------------------------------------------

\* np.linspace(0, 2*np.pi, num_points) for num_points >= 0: num_points
\* values, the first 0 and, when there are at least two, the last 2*pi.
linspace(num_points) ==
    [ k \in 1..num_points |->
        IF num_points = 1 THEN 0
        ELSE FloatRound(RDiv((k - 1) * TwoPi, num_points - 1)) ]

\* A key without the sample count.
cache_key_name_only(planet_name, num_points) == planet_name

\* cache_key = f"{planet_name}_{num_points}"
cache_key(planet_name, num_points) ==
    planet_name \o "_" \o ToString(num_points)

\* [calculate_point_on_orbit(data, t) for t in theta_values]
PointList(data, theta_values) ==
    [ k \in 1..Len(theta_values) |->
        calculate_point_on_orbit(data, theta_values[k]) ]

\* Some element of theta_values makes calculate_point_on_orbit raise.
PointListRaises(data, theta_values) ==
    \E k \in 1..Len(theta_values) : ZeroDivision(data, theta_values[k])

\* The list kept without its first point.
StoredPointsSliced(points) == SubSeq(points, 2, Len(points))

\* orbital_points_cache[cache_key] = points: the value kept under the key.
StoredPoints(points) == points

\* get_orbital_points(planet_name, num_points) run against a cache and the
\* precomputed records: what it raises, what it returns, the cache it leaves
\* and the number of positions it evaluated.
get_orbital_points(cache, precomputed, planet_name, num_points) ==
    LET key == cache_key(planet_name, num_points)
    IN  IF key \in DOMAIN cache
        THEN [ signal |-> "none", points |-> cache[key],
               cache |-> cache, computed |-> 0 ]
        ELSE IF num_points < 0
        THEN [ signal |-> "ValueError", points |-> << >>,
               cache |-> cache, computed |-> 0 ]
        ELSE LET theta_values == linspace(num_points)
                 data == precomputed[planet_name]
             IN  IF PointListRaises(data, theta_values)
                 THEN [ signal |-> "ZeroDivisionError", points |-> << >>,
                        cache |-> cache, computed |-> 0 ]
                 ELSE LET points == PointList(data, theta_values)
                      IN  [ signal |-> "none", points |-> points,
                            cache |-> cache @@ (key :> StoredPoints(points)),
                            computed |-> num_points ]

\* ------------------------------------------------------------------------
\* Coarse search
\* ------------------------------------------------------------------------

\* calculate_distance_matrix(points1, points2): entry [i][j], 0-based.
calculate_distance_matrix(points1, points2) ==
    [ i \in 0..(Len(points1) - 1), j \in 0..(Len(points2) - 1) |->
        Length(points1[i + 1], points2[j + 1]) ]

\* The extreme entry looked for in the first row only.
ArgExtremeFirstRow(matrix, rows, cols, is_minimum) ==
    LET Entry(k) == matrix[k \div cols, k % cols]
        RECURSIVE scan(_, _)
        scan(k, best) ==
            IF k >= cols THEN best
            ELSE IF (is_minimum /\ Entry(k) < Entry(best))
                    \/ (~is_minimum /\ Entry(k) > Entry(best))
                 THEN scan(k + 1, k)
                 ELSE scan(k + 1, best)
    IN  scan(1, 0)

\* The last flat index holding the extreme value instead of the first.
ArgExtremeLast(matrix, rows, cols, is_minimum) ==
    LET Entry(k) == matrix[k \div cols, k % cols]
        RECURSIVE scan(_, _)
        scan(k, best) ==
            IF k >= rows * cols THEN best
            ELSE IF (is_minimum /\ Entry(k) <= Entry(best))
                    \/ (~is_minimum /\ Entry(k) >= Entry(best))
                 THEN scan(k + 1, k)
                 ELSE scan(k + 1, best)
    IN  scan(1, 0)

\* argmin and argmax taken for each other.
ArgExtremeSwapped(matrix, rows, cols, is_minimum) ==
    LET Entry(k) == matrix[k \div cols, k % cols]
        RECURSIVE scan(_, _)
        scan(k, best) ==
            IF k >= rows * cols THEN best
            ELSE IF (~is_minimum /\ Entry(k) < Entry(best))
                    \/ (is_minimum /\ Entry(k) > Entry(best))
                 THEN scan(k + 1, k)
                 ELSE scan(k + 1, best)
    IN  scan(1, 0)

\* np.argmin / np.argmax of the flattened rows x cols matrix: the first
\* flat index, in row-major order, holding the extreme value.
ArgExtreme(matrix, rows, cols, is_minimum) ==
    LET Entry(k) == matrix[k \div cols, k % cols]
        RECURSIVE scan(_, _)
        scan(k, best) ==
            IF k >= rows * cols THEN best
            ELSE IF (is_minimum /\ Entry(k) < Entry(best))
                    \/ (~is_minimum /\ Entry(k) > Entry(best))
                 THEN scan(k + 1, k)
                 ELSE scan(k + 1, best)
    IN  scan(1, 0)

\* np.unravel_index(flat, (rows, cols))
unravel_index(flat, cols) == << flat \div cols, flat % cols >>

\* The coarse search with the angle of index k taken from n equal steps of a
\* revolution without its end point, k * 2*pi / n.
CoarseSearchOpenGrid(orbit1_points, orbit2_points) ==
    LET rows == Len(orbit1_points)
        cols == Len(orbit2_points)
        distance_matrix == calculate_distance_matrix(orbit1_points, orbit2_points)
        min_idx == unravel_index(ArgExtreme(distance_matrix, rows, cols, TRUE), cols)
        max_idx == unravel_index(ArgExtreme(distance_matrix, rows, cols, FALSE), cols)
        theta_values ==
            [ k \in 1..NUM_POINTS |-> FloatRound(RDiv((k - 1) * TwoPi, NUM_POINTS)) ]
    IN  [ min_idx |-> min_idx,
          max_idx |-> max_idx,
          min_distance |-> distance_matrix[min_idx[1], min_idx[2]],
          max_distance |-> distance_matrix[max_idx[1], max_idx[2]],
          min_thetas |-> << theta_values[min_idx[1] + 1], theta_values[min_idx[2] + 1] >>,
          max_thetas |-> << theta_values[max_idx[1] + 1], theta_values[max_idx[2] + 1] >> ]

\* Lines 195-207 of find_min_max_distance_points: the coarse index pairs and
\* the angles that seed the two refinements.
CoarseSearch(orbit1_points, orbit2_points) ==
    LET rows == Len(orbit1_points)
        cols == Len(orbit2_points)
        distance_matrix == calculate_distance_matrix(orbit1_points, orbit2_points)
        min_idx == unravel_index(ArgExtreme(distance_matrix, rows, cols, TRUE), cols)
        max_idx == unravel_index(ArgExtreme(distance_matrix, rows, cols, FALSE), cols)
        theta_values == linspace(NUM_POINTS)
    IN  [ min_idx |-> min_idx,
          max_idx |-> max_idx,
          min_distance |-> distance_matrix[min_idx[1], min_idx[2]],
          max_distance |-> distance_matrix[max_idx[1], max_idx[2]],
          min_thetas |-> << theta_values[min_idx[1] + 1], theta_values[min_idx[2] + 1] >>,
          max_thetas |-> << theta_values[max_idx[1] + 1], theta_values[max_idx[2] + 1] >> ]

\* ------------------------------------------------------------------------
\* Refinement
\* ------------------------------------------------------------------------

\* The defaults of refine_extremum: steps = 5, and step_size = 0.001 rad
\* scaled to the angle unit (8 degrees), a power of two so that halving is
\* exact as it is for a float.
StepsDefault == 5

StepDefault == 128

\* A floor that four halvings of the default step reach.
FloorNearDefault == StepDefault \div 8

\* The convergence floor 1e-6 rad, scaled to the angle unit.
Floor == 2

\* The floor test the wrong way round.
AboveFloor(size) == size > Floor

\* step_size < 1e-6 (line 280)
BelowFloor(size) == size < Floor

\* Distance between the two bodies at a pair of anomalies.
Distance(data1, data2, theta1, theta2) ==
    Length(calculate_point_on_orbit(data1, theta1),
           calculate_point_on_orbit(data2, theta2))

\* best_distance = current_distance if is_minimum else -current_distance
InitialBest(is_minimum, current_distance) ==
    IF is_minimum THEN current_distance ELSE Neg(current_distance)

\* The test with <= and >=: an equally good neighbor replaces the best one.
BetterOrEqual(is_minimum, new_distance, best_distance) ==
    \/ (is_minimum /\ new_distance <= best_distance)
    \/ (~is_minimum /\ new_distance >= best_distance)

\* The test without the search direction: a larger distance is better.
BetterAlwaysLarger(is_minimum, new_distance, best_distance) ==
    new_distance > best_distance

\* The test that makes a neighbor the new best one (lines 267-268).
Better(is_minimum, new_distance, best_distance) ==
    \/ (is_minimum /\ new_distance < best_distance)
    \/ (~is_minimum /\ new_distance > best_distance)

\* Offsets of twice the step.
OffsetsDoubled(step_size) ==
    LET d == << -2 * step_size, 0, 2 * step_size >>
    IN  [ k \in 1..9 |-> << d[((k - 1) \div 3) + 1], d[((k - 1) % 3) + 1] >> ]

\* The offsets (dt1, dt2) in scan order, (0, 0) included.
Offsets(step_size) ==
    LET d == << -step_size, 0, step_size >>
    IN  [ k \in 1..9 |-> << d[((k - 1) \div 3) + 1], d[((k - 1) % 3) + 1] >> ]

\* The offset sum clamped to the revolution instead of wrapped.
WrapClamped(theta) ==
    IF theta < 0 THEN 0 ELSE IF theta > TwoPi THEN TwoPi ELSE FloatRound(theta)

\* A neighbor angle, (current + dt) % (2*math.pi), of the exact sum theta:
\* the sum is rounded to a float; the remainder of a float that is not
\* negative is exact; the remainder of a negative float is that float plus
\* 2*pi, rounded, and the rounding can give 2*pi itself.
Wrap(theta) == FloatRound(FloatRound(theta) % TwoPi)

\* One iteration evaluates the current point and the neighbors; it raises
\* when one of these evaluations does.
IterationRaises(data1, data2, theta1, theta2, step_size) ==
    \/ ZeroDivision(data1, theta1)
    \/ ZeroDivision(data2, theta2)
    \/ \E k \in 1..9 :
          LET dt == Offsets(step_size)[k]
          IN  /\ ~(dt[1] = 0 /\ dt[2] = 0)
              /\ \/ ZeroDivision(data1, Wrap(theta1 + dt[1]))
                 \/ ZeroDivision(data2, Wrap(theta2 + dt[2]))

\* Lines 245-270: best_thetas after the scan of the neighbors.
BestThetas(data1, data2, theta1, theta2, is_minimum, step_size) ==
    LET offs == Offsets(step_size)
        current_distance == Distance(data1, data2, theta1, theta2)
        RECURSIVE scan(_, _, _)
        scan(k, best_distance, best_thetas) ==
            IF k > 9 THEN best_thetas
            ELSE LET dt1 == offs[k][1]
                     dt2 == offs[k][2]
                 IN  IF dt1 = 0 /\ dt2 = 0
                     THEN scan(k + 1, best_distance, best_thetas)
                     ELSE LET new_theta1 == Wrap(theta1 + dt1)
                              new_theta2 == Wrap(theta2 + dt2)
                              new_distance ==
                                  Distance(data1, data2, new_theta1, new_theta2)
                          IN  IF Better(is_minimum, new_distance, best_distance)
                              THEN scan(k + 1, new_distance,
                                        << new_theta1, new_theta2 >>)
                              ELSE scan(k + 1, best_distance, best_thetas)
    IN  scan(1, InitialBest(is_minimum, current_distance), << theta1, theta2 >>)

\* ------------------------------------------------------------------------
\* State
\* ------------------------------------------------------------------------

VARIABLES
    pc,                       \* "load", "idle" (between calls) or "refine"
    elements,                 \* the dict `planets` as it stands (line 16)
    precomputed_planet_data,  \* name -> trig record (line 67)
    orbital_points_cache,     \* cache key -> point sequence (line 47)
    call,                     \* the call in progress, or the last one
    caller,                   \* what the running refine_extremum returns to
    is_minimum,               \* parameters and locals of refine_extremum
    steps,
    step_size,
    iteration,                \* iterations of the loop started so far
    stopped,                  \* the loop was left through `break`
    seed_thetas,
    seed_step,                \* step_size argument of the running refine_extremum
    current_theta1,
    current_theta2,
    coarse,                   \* locals of find_min_max_distance_points
    min_thetas,
    ret,                      \* << value >> returned by the last call (a
                              \* record, see NoValue), or << >>
    signal,                   \* exception raised by the last call, or "none"
    computed,                 \* positions the sampler evaluated in the last call
    history,                  \* pair -> results of its completed solves, in order
    ncalls,                   \* top-level calls made
    thread_pc,                \* thread -> where it is in get_orbital_points
    thread_args,              \* thread -> << planet_name, num_points >>
    thread_points,            \* thread -> its local `points`
    thread_ret,               \* thread -> << sequence >> it returned, or << >>
    thread_writes,            \* cache key -> stores made under it by threads
    point_anomaly,            \* true_anomaly of the last direct position call
    point_scale,              \* scale_factor of the last direct position call
    point_r,                  \* << r >> the call computed, or << >>
    script_pc,                \* where the script's pair loop and summary are
    script_pairs,             \* the list planet_pairs the script runs with
    distance_results,         \* summaries appended so far (line 403)
    summary_table,            \* ratios printed by the summary loop (line 414)
    calc_pc,                  \* Brachistochrone_Calc: where main() is
    calc_origin,              \* index of the origin in planet_order
    calc_dest,                \* index of the destination in planet_order
    routes,                   \* the list `routes` of main()
    csv_file,                 \* the CSV file: written or not, header, rows
    calc_signal,              \* exception main() ended with, or "none"
    calc_call,                \* << p1, p2 >> of the last get_orbital_distances
    calc_ret,                 \* its result (min_dist, max_dist)
    moon_pc,                  \* moon scripts: where the moon loop is
    moon_script,              \* "Jupiter" or "Saturn"
    moon_list,                \* the names of the moon table, in its order
    moon_index,               \* moons whose loop body is over
    orbit_parent              \* parent of each moon's orbit curve

vars == << pc, elements, precomputed_planet_data, orbital_points_cache, call, caller,
           is_minimum, steps, step_size, iteration, stopped, seed_thetas,
           seed_step,
           current_theta1, current_theta2, coarse, min_thetas, ret, signal,
           computed, history, ncalls, thread_pc, thread_args, thread_points,
           thread_ret, thread_writes, point_anomaly, point_scale,
           point_r, script_pc, script_pairs, distance_results,
           summary_table, calc_pc, calc_origin, calc_dest, routes, csv_file,
           calc_signal, calc_call, calc_ret, moon_pc, moon_script, moon_list,
           moon_index, orbit_parent >>

point_vars == << point_anomaly, point_scale, point_r >>

script_vars == << script_pc, script_pairs, distance_results, summary_table >>

calc_vars == << calc_pc, calc_origin, calc_dest, routes, csv_file,
                calc_signal, calc_call, calc_ret >>

moon_vars == << moon_pc, moon_script, moon_list, moon_index, orbit_parent >>

\* The state of the scripts that stand apart from the solar-system script.
standalone_vars == << calc_vars, moon_vars >>

thread_vars == << thread_pc, thread_args, thread_points, thread_ret,
                  thread_writes >>

\* Threads that call get_orbital_points at once.
Threads == { 1, 2 }

refine_vars == << is_minimum, steps, step_size, iteration, stopped,
                  seed_thetas, seed_step, current_theta1, current_theta2 >>

\* Bound on the number of top-level calls in one run.
MaxCalls == 2

\* Sample counts the sampler is called with.
SampleCounts == { -1, 0, 1, CURVE_RESOLUTION, NUM_POINTS }

\* Orbits the sampler is called with directly.
SampledNames == { "CircA", "Ell", "Parab" }

\* Pairs the solver is called with (the list `planet_pairs`).
planet_pairs ==
    { << "CircA", "CircB" >>, << "CircB", "CircA" >>, << "CircC", "CircD" >>,
      << "CircA", "CircA" >>, << "Ell", "Ell" >>, << "Ell", "Twin" >>,
      << "Ell", "CircB" >>, << "CircC", "Ell" >>, << "Parab", "CircA" >> }

Pi == TwoPi \div 2

\* Arguments of the direct calls of refine_extremum:
\* << planet1, planet2, theta1, theta2, is_minimum, steps, step_size >>.
RefineArgs ==
    { << "Ell", "CircB", 0, Pi, TRUE, StepsDefault, StepDefault >>,
      << "Ell", "CircB", 0, Pi, FALSE, StepsDefault, StepDefault >>,
      << "Ell", "CircB", 1000, 3000, TRUE, 2, StepDefault >>,
      << "Ell", "CircB", 1000, 3000, FALSE, 1, StepDefault >>,
      << "CircC", "Ell", TwoPi, 40, TRUE, StepsDefault, 2 * Floor >>,
      << "CircC", "Ell", TwoPi, 40, FALSE, StepsDefault, 2 * Floor >>,
      << "Ell", "Ell", 700, 700, TRUE, StepsDefault, Floor >>,
      << "Ell", "Twin", 700, 3580, FALSE, StepsDefault, Floor >>,
      << "CircA", "CircB", 5000, 5000, TRUE, StepsDefault, 2 * Floor >>,
      << "Parab", "CircA", Pi, 0, TRUE, StepsDefault, StepDefault >>,
      << "Parab", "CircA", Pi - StepDefault, 0, FALSE, 2, StepDefault >>,
      << "Ell", "CircB", StepDefault - 1, Pi, TRUE, 2, StepDefault >>,
      << "CircB", "Ell", Pi, StepDefault - 1, FALSE, 2, StepDefault >>,
      << "CircA", "CircB", 0, Pi, FALSE, 1, StepDefault >> }

\* What a call returns, as a record with one field per kind of value: the
\* field of the kind returned holds the value, the others are empty.
NoResult ==
    [ min_distance |-> 0, min_point1 |-> << >>, min_point2 |-> << >>,
      min_theta1 |-> 0, min_theta2 |-> 0,
      max_distance |-> 0, max_point1 |-> << >>, max_point2 |-> << >>,
      max_theta1 |-> 0, max_theta2 |-> 0 ]

NoValue ==
    [ points |-> << >>, thetas |-> << >>, point |-> << >>, result |-> NoResult ]

\* A returned list of points, pair of angles, position, result record.
PointsValue(points) == [ NoValue EXCEPT !.points = points ]

ThetasValue(thetas) == [ NoValue EXCEPT !.thetas = thetas ]

PointValue(point) == [ NoValue EXCEPT !.point = point ]

ResultValue(result) == [ NoValue EXCEPT !.result = result ]

\* The CSV file before main() writes it.
NoFile == [ written |-> FALSE, columns |-> 0, rows |-> << >> ]

NoCall == [ op |-> "none", planet1 |-> "", planet2 |-> "", num_points |-> 0 ]

NoCoarse ==
    [ min_idx |-> << 0, 0 >>, max_idx |-> << 0, 0 >>,
      min_distance |-> 0, max_distance |-> 0,
      min_thetas |-> << 0, 0 >>, max_thetas |-> << 0, 0 >> ]

EmptyMap == [ k \in {} |-> 0 ]

Init ==
    /\ pc = "load"
    /\ elements = planets
    /\ precomputed_planet_data = EmptyMap
    /\ orbital_points_cache = EmptyMap
    /\ call = NoCall
    /\ caller = "none"
    /\ is_minimum = TRUE
    /\ steps = 0
    /\ step_size = 0
    /\ iteration = 0
    /\ stopped = FALSE
    /\ seed_thetas = << 0, 0 >>
    /\ seed_step = 0
    /\ current_theta1 = 0
    /\ current_theta2 = 0
    /\ coarse = NoCoarse
    /\ min_thetas = << 0, 0 >>
    /\ ret = << >>
    /\ signal = "none"
    /\ computed = 0
    /\ history = EmptyMap
    /\ ncalls = 0
    /\ thread_pc = [ t \in Threads |-> "idle" ]
    /\ thread_args = [ t \in Threads |-> << "", 0 >> ]
    /\ thread_points = [ t \in Threads |-> << >> ]
    /\ thread_ret = [ t \in Threads |-> << >> ]
    /\ thread_writes = EmptyMap
    /\ point_anomaly = 0
    /\ point_scale = 1
    /\ point_r = << >>
    /\ script_pc = "none"
    /\ script_pairs = << >>
    /\ distance_results = << >>
    /\ summary_table = << >>
    /\ calc_pc = "none"
    /\ calc_origin = 0
    /\ calc_dest = 0
    /\ routes = << >>
    /\ csv_file = NoFile
    /\ calc_signal = "none"
    /\ calc_call = << >>
    /\ calc_ret = << >>
    /\ moon_pc = "none"
    /\ moon_script = ""
    /\ moon_list = << >>
    /\ moon_index = 0
    /\ orbit_parent = EmptyMap

\* Line 67: the module builds the trig record of every entry of `planets`.
Load ==
    /\ pc = "load"
    /\ pc' = "idle"
    /\ precomputed_planet_data' =
           [ name \in DOMAIN elements |-> precompute_trig_values(elements[name]) ]
    /\ UNCHANGED << thread_vars, script_vars, standalone_vars, point_vars, elements, orbital_points_cache, call, caller, refine_vars,
                    coarse, min_thetas, ret, signal, computed, history, ncalls >>

\* True anomalies of the direct position calls.
PointAnomalies == { 0, 7, 720, 1000, Pi, 3000, 4322, 5000, TwoPi }

\* Scale factors of the curves of the moon scripts.
ScaleFactors == { 1, 2 }

\* What a direct position call returns: << raised, position, r >>.
\*   - calculate_point_on_orbit(precomputed_planet_data[name], v);
\*   - median.py's calculate_orbit_point, with the elements of the name in
\*     radians;
\*   - the loop body of create_orbital_curve of the moon scripts, with the
\*     elements of the name and the scale factor.
PointCall(function, precomputed, table, name, anomaly, scale_factor) ==
    LET data == precomputed[name]
        el == table[name]
    IN  IF function = "calculate_point_on_orbit"
        THEN IF ZeroDivision(data, anomaly)
             THEN << TRUE, << >>, << >> >>
             ELSE << FALSE, calculate_point_on_orbit(data, anomaly),
                     << Radius(data, anomaly) >> >>
        ELSE IF function = "calculate_orbit_point"
        THEN << FALSE,
                calculate_orbit_point(el.a, el.e, radians(el.inc),
                                      radians(el.node), radians(el.peri),
                                      anomaly),
                << OrbitPointRadius(el.a, el.e, anomaly) >> >>
        ELSE << FALSE, OrbitalCurvePoint(el, scale_factor, anomaly),
                << OrbitalCurveRadius(el, scale_factor, anomaly) >> >>

\* A direct call of one of the three position functions.
CalculatePoint(function, planet_name, true_anomaly, scale_factor) ==
    /\ pc = "idle"
    /\ call' = [ op |-> function, planet1 |-> planet_name, planet2 |-> "",
                 num_points |-> 0 ]
    /\ point_anomaly' = true_anomaly
    /\ point_scale' = scale_factor
    /\ computed' = 0
    /\ \E out \in { PointCall(function, precomputed_planet_data, elements,
                               planet_name, true_anomaly, scale_factor) } :
           /\ signal' = IF out[1] THEN "ZeroDivisionError" ELSE "none"
           /\ ret' = IF out[1] THEN << >> ELSE << PointValue(out[2]) >>
           /\ point_r' = out[3]
    /\ UNCHANGED << thread_vars, script_vars, standalone_vars, pc, elements, precomputed_planet_data,
                    orbital_points_cache, caller, refine_vars, coarse,
                    min_thetas, history, ncalls >>

\* A call get_orbital_points(planet_name, num_points).
GetOrbitalPoints(planet_name, num_points) ==
    /\ pc = "idle"
    /\ ncalls < MaxCalls
    /\ \E out \in { get_orbital_points(orbital_points_cache,
                                       precomputed_planet_data,
                                       planet_name, num_points) } :
           /\ orbital_points_cache' = out.cache
           /\ signal' = out.signal
           /\ ret' = IF out.signal = "none"
                     THEN << PointsValue(out.points) >> ELSE << >>
           /\ computed' = out.computed
    /\ call' = [ op |-> "get_orbital_points", planet1 |-> planet_name,
                 planet2 |-> "", num_points |-> num_points ]
    /\ ncalls' = ncalls + 1
    /\ UNCHANGED << pc, thread_vars, script_vars, standalone_vars, point_vars, elements, precomputed_planet_data, caller, refine_vars, coarse,
                    min_thetas, history >>

\* The frame of a refine_extremum call (lines 238-241).
EnterRefine(theta1, theta2, minimum, nsteps, size) ==
    /\ is_minimum' = minimum
    /\ steps' = nsteps
    /\ step_size' = size
    /\ iteration' = 0
    /\ stopped' = FALSE
    /\ seed_thetas' = << theta1, theta2 >>
    /\ seed_step' = size
    /\ current_theta1' = theta1
    /\ current_theta2' = theta2

\* A call find_min_max_distance_points(planet1, planet2), up to the call of
\* the minimum refinement (lines 191-210).
FindMinMaxCall(planet1, planet2) ==
    /\ pc = "idle"
    /\ ncalls < MaxCalls
    /\ ncalls' = ncalls + 1
    /\ call' = [ op |-> "find_min_max_distance_points", planet1 |-> planet1,
                 planet2 |-> planet2, num_points |-> NUM_POINTS ]
    /\ \E out1 \in { get_orbital_points(orbital_points_cache,
                                        precomputed_planet_data,
                                        planet1, NUM_POINTS) } :
       \E out2 \in { get_orbital_points(out1.cache, precomputed_planet_data,
                                        planet2, NUM_POINTS) } :
           IF out1.signal # "none"
           THEN /\ signal' = out1.signal
                /\ ret' = << >>
                /\ computed' = out1.computed
                /\ UNCHANGED << pc, orbital_points_cache, caller, refine_vars,
                                coarse >>
           ELSE IF out2.signal # "none"
           THEN /\ signal' = out2.signal
                /\ ret' = << >>
                /\ computed' = out1.computed + out2.computed
                /\ orbital_points_cache' = out1.cache
                /\ UNCHANGED << pc, caller, refine_vars, coarse >>
           ELSE \E c \in { CoarseSearch(out1.points, out2.points) } :
                    /\ signal' = "none"
                    /\ ret' = << >>
                    /\ computed' = out1.computed + out2.computed
                    /\ orbital_points_cache' = out2.cache
                    /\ coarse' = c
                    /\ pc' = "refine"
                    /\ caller' = "find_min"
                    /\ EnterRefine(c.min_thetas[1], c.min_thetas[2], TRUE,
                                   StepsDefault, StepDefault)
    /\ UNCHANGED << thread_vars, standalone_vars, point_vars, elements, precomputed_planet_data, min_thetas, history >>

\* The call made by a caller other than the script's pair loop.
FindMinMax(planet1, planet2) ==
    /\ FindMinMaxCall(planet1, planet2)
    /\ UNCHANGED script_vars

\* A direct call refine_extremum(planet1, planet2, theta1, theta2,
\* is_minimum, steps, step_size).
RefineExtremum(args) ==
    /\ pc = "idle"
    /\ ncalls < MaxCalls
    /\ ncalls' = ncalls + 1
    /\ call' = [ op |-> "refine_extremum", planet1 |-> args[1],
                 planet2 |-> args[2], num_points |-> 0 ]
    /\ pc' = "refine"
    /\ caller' = "direct"
    /\ EnterRefine(args[3], args[4], args[5], args[6], args[7])
    /\ signal' = "none"
    /\ ret' = << >>
    /\ computed' = 0
    /\ UNCHANGED << thread_vars, script_vars, standalone_vars, point_vars, elements, precomputed_planet_data, orbital_points_cache, coarse,
                    min_thetas, history >>

\* The loop of refine_extremum has an iteration left to run.
LoopRuns == pc = "refine" /\ iteration < steps /\ ~stopped

\* One iteration of the loop of refine_extremum (lines 243-281).
RefineStep ==
    /\ LoopRuns
    /\ LET data1 == precomputed_planet_data[call.planet1]
           data2 == precomputed_planet_data[call.planet2]
       IN  IF IterationRaises(data1, data2, current_theta1, current_theta2,
                              step_size)
           THEN /\ pc' = "idle"
                /\ signal' = "ZeroDivisionError"
                /\ UNCHANGED refine_vars
           ELSE \E best_thetas \in
                        { BestThetas(data1, data2, current_theta1,
                                     current_theta2, is_minimum, step_size) } :
                    /\ iteration' = iteration + 1
                    /\ IF best_thetas # << current_theta1, current_theta2 >>
                       THEN /\ current_theta1' = best_thetas[1]
                            /\ current_theta2' = best_thetas[2]
                            /\ UNCHANGED << step_size, stopped >>
                       ELSE /\ step_size' = step_size \div 2
                            /\ stopped' = BelowFloor(step_size \div 2)
                            /\ UNCHANGED << current_theta1, current_theta2 >>
                    /\ UNCHANGED << pc, signal, is_minimum, steps, seed_thetas,
                                    seed_step >>
    /\ UNCHANGED << thread_vars, script_vars, standalone_vars, point_vars, elements, precomputed_planet_data, orbital_points_cache, call,
                    caller, coarse, min_thetas, ret, computed, history, ncalls >>

\* The loop of refine_extremum is over: line 283 returns.
LoopOver == pc = "refine" /\ (iteration >= steps \/ stopped)

\* Line 283 of a direct call: the refined angles are the result.
ReturnRefine ==
    /\ LoopOver
    /\ caller = "direct"
    /\ pc' = "idle"
    /\ caller' = "none"
    /\ ret' = << ThetasValue(<< current_theta1, current_theta2 >>) >>
    /\ UNCHANGED << thread_vars, script_vars, standalone_vars, point_vars, elements, precomputed_planet_data, orbital_points_cache, call,
                    refine_vars, coarse, min_thetas, signal, computed,
                    history, ncalls >>

\* Lines 210-211: the minimum refinement returns and the maximum refinement
\* is called from the coarse maximum.
ReturnMinimum ==
    /\ LoopOver
    /\ caller = "find_min"
    /\ min_thetas' = << current_theta1, current_theta2 >>
    /\ caller' = "find_max"
    /\ EnterRefine(coarse.max_thetas[1], coarse.max_thetas[2], FALSE,
                   StepsDefault, StepDefault)
    /\ UNCHANGED << pc, thread_vars, script_vars, standalone_vars, point_vars, elements, precomputed_planet_data, orbital_points_cache, call,
                    coarse, ret, signal, computed, history, ncalls >>

\* The result record with the positions taken at the coarse samples nearest
\* below the refined angles instead of at the refined angles.
ResultOnGrid(data1, data2, min_theta1, min_theta2, max_theta1, max_theta2) ==
    LET Sample(theta) ==
            linspace(NUM_POINTS)[((theta * (NUM_POINTS - 1)) \div TwoPi) + 1]
        min_point1 == calculate_point_on_orbit(data1, Sample(min_theta1))
        min_point2 == calculate_point_on_orbit(data2, Sample(min_theta2))
        max_point1 == calculate_point_on_orbit(data1, Sample(max_theta1))
        max_point2 == calculate_point_on_orbit(data2, Sample(max_theta2))
    IN  [ min_distance |-> Length(min_point1, min_point2),
          min_point1 |-> min_point1,
          min_point2 |-> min_point2,
          min_theta1 |-> min_theta1,
          min_theta2 |-> min_theta2,
          max_distance |-> Length(max_point1, max_point2),
          max_point1 |-> max_point1,
          max_point2 |-> max_point2,
          max_theta1 |-> max_theta1,
          max_theta2 |-> max_theta2 ]

\* The result record with min_distance measured to the wrong point.
ResultMixedPoints(data1, data2, min_theta1, min_theta2, max_theta1, max_theta2) ==
    LET min_point1 == calculate_point_on_orbit(data1, min_theta1)
        min_point2 == calculate_point_on_orbit(data2, min_theta2)
        max_point1 == calculate_point_on_orbit(data1, max_theta1)
        max_point2 == calculate_point_on_orbit(data2, max_theta2)
    IN  [ min_distance |-> Length(min_point1, max_point2),
          min_point1 |-> min_point1,
          min_point2 |-> min_point2,
          min_theta1 |-> min_theta1,
          min_theta2 |-> min_theta2,
          max_distance |-> Length(max_point1, max_point2),
          max_point1 |-> max_point1,
          max_point2 |-> max_point2,
          max_theta1 |-> max_theta1,
          max_theta2 |-> max_theta2 ]

\* Lines 213-233: the result record, from the refined angles.
Result(data1, data2, min_theta1, min_theta2, max_theta1, max_theta2) ==
    LET min_point1 == calculate_point_on_orbit(data1, min_theta1)
        min_point2 == calculate_point_on_orbit(data2, min_theta2)
        max_point1 == calculate_point_on_orbit(data1, max_theta1)
        max_point2 == calculate_point_on_orbit(data2, max_theta2)
    IN  [ min_distance |-> Length(min_point1, min_point2),
          min_point1 |-> min_point1,
          min_point2 |-> min_point2,
          min_theta1 |-> min_theta1,
          min_theta2 |-> min_theta2,
          max_distance |-> Length(max_point1, max_point2),
          max_point1 |-> max_point1,
          max_point2 |-> max_point2,
          max_theta1 |-> max_theta1,
          max_theta2 |-> max_theta2 ]

\* Lines 211-233: the maximum refinement returns and
\* find_min_max_distance_points returns its result.
ReturnMaximum ==
    /\ LoopOver
    /\ caller = "find_max"
    /\ pc' = "idle"
    /\ caller' = "none"
    /\ LET data1 == precomputed_planet_data[call.planet1]
           data2 == precomputed_planet_data[call.planet2]
           pair == << call.planet1, call.planet2 >>
       IN  IF \/ ZeroDivision(data1, min_thetas[1])
              \/ ZeroDivision(data2, min_thetas[2])
              \/ ZeroDivision(data1, current_theta1)
              \/ ZeroDivision(data2, current_theta2)
           THEN /\ signal' = "ZeroDivisionError"
                /\ UNCHANGED << ret, history >>
           ELSE \E result \in
                        { Result(data1, data2, min_thetas[1], min_thetas[2],
                                 current_theta1, current_theta2) } :
                    /\ ret' = << ResultValue(result) >>
                    /\ history' =
                           IF pair \in DOMAIN history
                           THEN [ history EXCEPT ![pair] = Append(@, result) ]
                           ELSE history @@ (pair :> << result >>)
                    /\ UNCHANGED signal
    /\ UNCHANGED << thread_vars, script_vars, standalone_vars, point_vars, elements, precomputed_planet_data, orbital_points_cache, call,
                    refine_vars, coarse, min_thetas, computed, ncalls >>

Next ==
    \/ Load
    \/ \E planet_name \in SampledNames, num_points \in SampleCounts :
          GetOrbitalPoints(planet_name, num_points)
    \/ \E pair \in planet_pairs : FindMinMax(pair[1], pair[2])
    \/ \E args \in RefineArgs : RefineExtremum(args)
    \/ RefineStep
    \/ ReturnRefine
    \/ ReturnMinimum
    \/ ReturnMaximum

Spec == Init /\ [][Next]_vars

\* The loop of refine_extremum and the returns run to completion: the script
\* is one thread and nothing suspends a call.
FairSpec ==
    /\ Spec
    /\ WF_vars(RefineStep)
    /\ WF_vars(ReturnRefine)
    /\ WF_vars(ReturnMinimum)
    /\ WF_vars(ReturnMaximum)

\* The element changes a caller of the module makes: << name, data >> for
\* planets[name] = data.  The new elements are other rows of the table.
ElementChanges ==
    { << "CircA", planets.CircB >>, << "Ell", planets.CircC >> }

\* planets[name] = data, between two calls: `planets` is a module-level dict
\* (line 16) and nothing else of the module is told about the assignment.
SetElements(name, data) ==
    /\ pc = "idle"
    /\ elements[name] # data
    /\ elements' = [ elements EXCEPT ![name] = data ]
    /\ UNCHANGED << thread_vars, script_vars, standalone_vars, point_vars, pc, precomputed_planet_data,
                    orbital_points_cache, call, caller, refine_vars, coarse,
                    min_thetas, ret, signal, computed, history, ncalls >>

NextElements ==
    \/ Next
    \/ \E change \in ElementChanges : SetElements(change[1], change[2])

\* The module with a caller that changes elements between calls.
SpecElements == Init /\ [][NextElements]_vars

\* Arguments the threads call get_orbital_points with.
ThreadArgs ==
    { << "CircA", NUM_POINTS >>, << "CircA", CURVE_RESOLUTION >>,
      << "Ell", NUM_POINTS >>, << "Twin", NUM_POINTS >>, << "Ell", -1 >> }

\* The variables of the sequential script, the script's loop state apart.
main_vars_but_script ==
    << pc, elements, precomputed_planet_data, call, caller, refine_vars,
       coarse, min_thetas, ret, signal, computed, history, ncalls,
       point_vars >>

main_vars == << pc, elements, precomputed_planet_data, call, caller,
               refine_vars, coarse, min_thetas, ret, signal, computed,
               history, ncalls, point_vars, script_vars >>

\* A thread calls get_orbital_points(planet_name, num_points): line 99.
ThreadCall(t, planet_name, num_points) ==
    /\ pc = "idle"
    /\ thread_pc[t] = "idle"
    /\ thread_pc' = [ thread_pc EXCEPT ![t] = "test" ]
    /\ thread_args' = [ thread_args EXCEPT ![t] = << planet_name, num_points >> ]
    /\ UNCHANGED << main_vars, standalone_vars, orbital_points_cache, thread_points,
                    thread_ret, thread_writes >>

\* Lines 101-102: the membership test, and the return on a hit.
ThreadTest(t) ==
    /\ thread_pc[t] = "test"
    /\ LET key == cache_key(thread_args[t][1], thread_args[t][2])
       IN  IF key \in DOMAIN orbital_points_cache
           THEN /\ thread_ret' =
                       [ thread_ret EXCEPT ![t] = << orbital_points_cache[key] >> ]
                /\ thread_pc' = [ thread_pc EXCEPT ![t] = "done" ]
           ELSE /\ thread_pc' = [ thread_pc EXCEPT ![t] = "compute" ]
                /\ UNCHANGED thread_ret
    /\ UNCHANGED << main_vars, standalone_vars, orbital_points_cache, thread_args,
                    thread_points, thread_writes >>

\* Lines 104-105: the thread computes its own list (or raises).
ThreadCompute(t) ==
    /\ thread_pc[t] = "compute"
    /\ LET data == precomputed_planet_data[thread_args[t][1]]
           num_points == thread_args[t][2]
       IN  IF num_points < 0 \/ PointListRaises(data, linspace(num_points))
           THEN /\ thread_pc' = [ thread_pc EXCEPT ![t] = "raised" ]
                /\ UNCHANGED thread_points
           ELSE /\ thread_pc' = [ thread_pc EXCEPT ![t] = "store" ]
                /\ thread_points' =
                       [ thread_points EXCEPT
                           ![t] = PointList(data, linspace(num_points)) ]
    /\ UNCHANGED << main_vars, standalone_vars, orbital_points_cache, thread_args, thread_ret,
                    thread_writes >>

\* Lines 108-109: the unconditional store under the key, and the return.
ThreadStore(t) ==
    /\ thread_pc[t] = "store"
    /\ LET key == cache_key(thread_args[t][1], thread_args[t][2])
           stored == StoredPoints(thread_points[t])
       IN  /\ orbital_points_cache' =
                  [ k \in DOMAIN orbital_points_cache \cup { key } |->
                      IF k = key THEN stored ELSE orbital_points_cache[k] ]
           /\ thread_writes' =
                  [ k \in DOMAIN thread_writes \cup { key } |->
                      IF k = key
                      THEN (IF k \in DOMAIN thread_writes
                            THEN thread_writes[k] + 1 ELSE 1)
                      ELSE thread_writes[k] ]
    /\ thread_ret' = [ thread_ret EXCEPT ![t] = << thread_points[t] >> ]
    /\ thread_pc' = [ thread_pc EXCEPT ![t] = "done" ]
    /\ UNCHANGED << main_vars, standalone_vars, thread_args, thread_points >>

NextThreads ==
    \/ Load
    \/ \E t \in Threads, args \in ThreadArgs : ThreadCall(t, args[1], args[2])
    \/ \E t \in Threads : ThreadTest(t)
    \/ \E t \in Threads : ThreadCompute(t)
    \/ \E t \in Threads : ThreadStore(t)

\* The module with get_orbital_points called from several threads: the
\* interpreter may switch threads between any two statements.
SpecThreads == Init /\ [][NextThreads]_vars

NextPoints ==
    \/ Load
    \/ \E function \in { "calculate_point_on_orbit", "calculate_orbit_point" },
          planet_name \in PlanetNames, true_anomaly \in PointAnomalies :
          CalculatePoint(function, planet_name, true_anomaly, 1)
    \/ \E planet_name \in PlanetNames, true_anomaly \in PointAnomalies,
          scale_factor \in ScaleFactors :
          CalculatePoint("create_orbital_curve", planet_name, true_anomaly,
                         scale_factor)

\* The position functions called directly, over the table and the anomalies.
SpecPoints == Init /\ [][NextPoints]_vars

\* The lists `planet_pairs` the script is run with: orbits of valid
\* eccentricity, different orbits and an orbit listed with itself or with
\* an orbit of the same elements.
ScriptLists ==
    { << << "CircA", "CircB" >> >>,
      << << "CircC", "Ell" >>, << "CircA", "CircB" >> >>,
      << << "Ell", "CircB" >>, << "Ell", "Twin" >> >>,
      << << "CircA", "CircA" >>, << "CircC", "CircD" >> >>,
      << << "CircB", "CircA" >>, << "Ell", "Ell" >> >> }

\* The script starts its pair loop (line 395) with a list of pairs.
ScriptStart(pairs) ==
    /\ pc = "idle"
    /\ script_pc = "none"
    /\ script_pc' = "pairs"
    /\ script_pairs' = pairs
    /\ UNCHANGED << main_vars_but_script, standalone_vars, thread_vars, orbital_points_cache,
                    distance_results, summary_table >>

\* Line 399: the loop calls find_min_max_distance_points for the next pair.
ScriptSolve ==
    /\ script_pc = "pairs"
    /\ Len(distance_results) < Len(script_pairs)
    /\ LET pair == script_pairs[Len(distance_results) + 1]
       IN  FindMinMaxCall(pair[1], pair[2])
    /\ script_pc' = "solving"
    /\ UNCHANGED << script_pairs, distance_results, summary_table >>

\* Lines 402-403: the call is over; an exception ends the script, a result
\* is summarised by create_distance_indicators (lines 364-368) and appended.
ScriptAppend ==
    /\ script_pc = "solving"
    /\ pc = "idle"
    /\ IF signal = "none"
       THEN /\ distance_results' =
                   Append(distance_results,
                          [ pair |-> << call.planet1, call.planet2 >>,
                            min_distance |-> ret[1].result.min_distance,
                            max_distance |-> ret[1].result.max_distance ])
            /\ script_pc' = "pairs"
       ELSE /\ script_pc' = "raised"
            /\ UNCHANGED distance_results
    /\ UNCHANGED << main_vars_but_script, standalone_vars, thread_vars, orbital_points_cache,
                    script_pairs, summary_table >>

\* ratio = res['max_distance'] / res['min_distance'] (line 414), for a
\* min_distance that is not 0: like the distances, the ratio is represented
\* by its square, here in 1/100.
Ratio(res) == RDiv(100 * res.max_distance, res.min_distance)

\* The rows of distance_results whose min_distance is 0.
ZeroRows(results) == { k \in 1..Len(results) : results[k].min_distance = 0 }

\* Lines 410-415, after the last pair: the summary loop prints one row per
\* result, with its ratio; the division of two Python floats raises
\* ZeroDivisionError at the first row whose min_distance is 0.
PrintSummary ==
    /\ script_pc = "pairs"
    /\ Len(distance_results) = Len(script_pairs)
    /\ IF ZeroRows(distance_results) = { }
       THEN /\ summary_table' =
                   [ k \in 1..Len(distance_results) |->
                         Ratio(distance_results[k]) ]
            /\ script_pc' = "done"
       ELSE LET first == CHOOSE k \in ZeroRows(distance_results) :
                             \A j \in ZeroRows(distance_results) : k <= j
            IN  /\ summary_table' =
                       [ k \in 1..(first - 1) |-> Ratio(distance_results[k]) ]
                /\ script_pc' = "raised"
    /\ UNCHANGED << main_vars_but_script, standalone_vars, thread_vars, orbital_points_cache,
                    script_pairs, distance_results >>

NextScript ==
    \/ Load
    \/ \E pairs \in ScriptLists : ScriptStart(pairs)
    \/ ScriptSolve
    \/ RefineStep
    \/ ReturnMinimum
    \/ ReturnMaximum
    \/ ScriptAppend
    \/ PrintSummary

\* The script's pair loop and summary table, run on a list of pairs.
SpecScript == Init /\ [][NextScript]_vars

\* ------------------------------------------------------------------------
\* Brachistochrone_Calc.py
\* ------------------------------------------------------------------------

\* The table PLANETS (lines 37-47): perihelion and aphelion in 1/10000 AU.
PLANETS ==
    [ Mercury |-> [ perihelion |-> 3070,   aphelion |-> 4670 ],
      Venus   |-> [ perihelion |-> 7180,   aphelion |-> 7280 ],
      Earth   |-> [ perihelion |-> 9830,   aphelion |-> 10170 ],
      Mars    |-> [ perihelion |-> 13810,  aphelion |-> 16660 ],
      Ceres   |-> [ perihelion |-> 25518,  aphelion |-> 29775 ],
      Jupiter |-> [ perihelion |-> 49500,  aphelion |-> 54570 ],
      Saturn  |-> [ perihelion |-> 90410,  aphelion |-> 101240 ],
      Uranus  |-> [ perihelion |-> 183750, aphelion |-> 200630 ],
      Neptune |-> [ perihelion |-> 297670, aphelion |-> 304410 ] ]

\* planet_order of main() (line 174).
planet_order ==
    << "Mercury", "Venus", "Earth", "Mars", "Ceres", "Jupiter", "Saturn",
       "Uranus", "Neptune" >>

\* The number of columns of `headers` (lines 178-187).
HeaderColumns == 18

Max(a, b) == IF a >= b THEN a ELSE b

Min(a, b) == IF a <= b THEN a ELSE b

\* get_orbital_distances without the floor max(0, ...).
OrbitalDistancesNoFloor(p1, p2) ==
    << Max(p1.perihelion, p2.perihelion) - Min(p1.aphelion, p2.aphelion),
       p1.aphelion + p2.aphelion >>

\* BrachistochroneCalculator.get_orbital_distances(p1, p2) (lines 77-81):
\* (min_dist, max_dist).
get_orbital_distances(p1, p2) ==
    << Max(0, Max(p1.perihelion, p2.perihelion)
                  - Min(p1.aphelion, p2.aphelion)),
       p1.aphelion + p2.aphelion >>

\* The row main() builds for a route (lines 192-215, 220-243), reduced to
\* its names, its two distances and the four orbit columns; the travel
\* times and delta-v columns are square roots of these distances, which are
\* never negative.
RouteRow(origin, destination) ==
    LET d == get_orbital_distances(PLANETS[origin], PLANETS[destination])
    IN  [ origin |-> origin, destination |-> destination,
          min_distance |-> d[1], max_distance |-> d[2],
          origin_perihelion |-> PLANETS[origin].perihelion,
          origin_aphelion |-> PLANETS[origin].aphelion,
          destination_perihelion |-> PLANETS[destination].perihelion,
          destination_aphelion |-> PLANETS[destination].aphelion ]

\* Planet values get_orbital_distances is called with directly: perihelion
\* and aphelion from small sets, orbits that overlap, touch and lie apart,
\* and values that are no orbit (perihelion 0, or above the aphelion).
PlanetInputs ==
    { [ perihelion |-> q, aphelion |-> Q ] : q \in { 0, 1, 3, 6 },
                                             Q \in { 1, 3, 4, 8 } }

\* A direct call calculator.get_orbital_distances(p1, p2).
GetOrbitalDistances(p1, p2) ==
    /\ calc_pc = "none"
    /\ calc_call' = << p1, p2 >>
    /\ calc_ret' = get_orbital_distances(p1, p2)
    /\ UNCHANGED << main_vars, thread_vars, orbital_points_cache, moon_vars,
                    calc_pc, calc_origin, calc_dest, routes, csv_file,
                    calc_signal >>

\* main() starts (lines 169-187): routes = [].
CalcMain ==
    /\ calc_pc = "none"
    /\ calc_pc' = "pairs"
    /\ calc_origin' = 1
    /\ calc_dest' = 2
    /\ routes' = << >>
    /\ UNCHANGED << main_vars, thread_vars, orbital_points_cache, moon_vars,
                    csv_file, calc_signal, calc_call, calc_ret >>

\* One iteration of the inner loop of lines 190-216: the row of the pair
\* (planet_order[calc_origin], planet_order[calc_dest]) is appended; after
\* the last destination the next origin follows, and after the last origin
\* that has a destination, the loop of line 219.
PairRoute ==
    /\ calc_pc = "pairs"
    /\ routes' = Append(routes, RouteRow(planet_order[calc_origin],
                                         planet_order[calc_dest]))
    /\ IF calc_dest < Len(planet_order)
       THEN /\ calc_dest' = calc_dest + 1
            /\ UNCHANGED << calc_origin, calc_pc >>
       ELSE IF calc_origin + 1 < Len(planet_order)
       THEN /\ calc_origin' = calc_origin + 1
            /\ calc_dest' = calc_origin + 2
            /\ UNCHANGED calc_pc
       ELSE /\ calc_pc' = "centauri"
            /\ calc_origin' = 1
            /\ calc_dest' = 0
    /\ UNCHANGED << main_vars, thread_vars, orbital_points_cache, moon_vars,
                    csv_file, calc_signal, calc_call, calc_ret >>

\* One iteration of the loop of lines 219-244: PLANETS['Alpha Centauri'] is
\* looked up (line 221), which raises KeyError when the table has no such
\* entry; otherwise the row is appended, and after the last origin the
\* header and all rows are written to the CSV file (lines 247-254).
CentauriRoute ==
    /\ calc_pc = "centauri"
    /\ IF "Alpha Centauri" \notin DOMAIN PLANETS
       THEN /\ calc_pc' = "raised"
            /\ calc_signal' = "KeyError"
            /\ UNCHANGED << routes, calc_origin, csv_file >>
       ELSE /\ routes' = Append(routes, RouteRow(planet_order[calc_origin],
                                                 "Alpha Centauri"))
            /\ calc_origin' = calc_origin + 1
            /\ IF calc_origin < Len(planet_order)
               THEN UNCHANGED << calc_pc, csv_file >>
               ELSE /\ calc_pc' = "done"
                    /\ csv_file' = [ written |-> TRUE,
                                     columns |-> HeaderColumns,
                                     rows |-> routes' ]
            /\ UNCHANGED calc_signal
    /\ UNCHANGED << main_vars, thread_vars, orbital_points_cache, moon_vars,
                    calc_dest, calc_call, calc_ret >>

NextCalc ==
    \/ \E p1 \in PlanetInputs, p2 \in PlanetInputs : GetOrbitalDistances(p1, p2)
    \/ CalcMain
    \/ PairRoute
    \/ CentauriRoute

\* Brachistochrone_Calc.py: direct calls of get_orbital_distances, then one
\* run of main().
SpecCalc == Init /\ [][NextCalc]_vars

\* ------------------------------------------------------------------------
\* Blender_Orbits_Jupiter.py and Blender_Orbits_Saturn.py: the moon loop
\* ------------------------------------------------------------------------

\* The dict `groups` of a script, in declaration order (a dict keeps it):
\* key, name of the group empty, moon list.  Small tables with the shapes
\* of the source: the Jupiter table lists only some of its moons, the Saturn
\* table all of them; "Edited" is the Jupiter table with a name that a
\* second list repeats.
groups(script) ==
    IF script = "Jupiter"
    THEN << [ key |-> "Inner", name |-> "1.Inner_Group",
              moons |-> { "Metis", "Thebe" } ],
            [ key |-> "Galilean", name |-> "2.Galilean_Moons",
              moons |-> { "Io", "Europa" } ],
            [ key |-> "Recent", name |-> "10.Recent_Discoveries",
              moons |-> { "Ersa" } ] >>
    ELSE IF script = "Saturn"
    THEN << [ key |-> "Ring", name |-> "1.Ring_Moonlets",
              moons |-> { "Pan" } ],
            [ key |-> "Major", name |-> "4.Major_Moons",
              moons |-> { "Titan", "Rhea" } ],
            [ key |-> "Norse", name |-> "8.Norse_Group",
              moons |-> { "Phoebe" } ],
            [ key |-> "Recent", name |-> "11.Recent_Discoveries",
              moons |-> { "S/2021 S1" } ] >>
    ELSE << [ key |-> "Inner", name |-> "1.Inner_Group",
              moons |-> { "Metis", "Thebe" } ],
            [ key |-> "Galilean", name |-> "2.Galilean_Moons",
              moons |-> { "Io", "Europa", "Thebe" } ],
            [ key |-> "Recent", name |-> "10.Recent_Discoveries",
              moons |-> { "Ersa", "Io" } ] >>

\* The keys of the moon table of a script (jupiter_moons, saturn_moons).
MoonNames(script) ==
    IF script = "Saturn" THEN { "Pan", "Titan", "Rhea", "Phoebe", "S/2021 S1" }
    ELSE { "Metis", "Thebe", "Io", "Ersa", "S/2003 J2" }

MoonScripts == { "Jupiter", "Saturn", "Edited" }

\* The planet empty of a script.
PlanetOf(script) == IF script = "Saturn" THEN "Saturn" ELSE "Jupiter"

\* Bound on the number of moons of a table.
MaxMoons == 3

\* The moon tables: the lists of at most MaxMoons different names.
MoonLists(script) ==
    { list \in UNION { [ 1..n -> MoonNames(script) ] : n \in 1..MaxMoons } :
          \A i, j \in 1..Len(list) : i # j => list[i] # list[j] }

\* group_objects[key] (lines 208-216): the empty made for the group of that
\* key, an object being identified by its name.
group_objects(script, key) ==
    LET k == CHOOSE k \in 1..Len(groups(script)) : groups(script)[k].key = key
    IN  groups(script)[k].name

\* The loop body without the lines 232-234.
OrbitParentNoFallback(script, moon_name) ==
    LET RECURSIVE scan(_)
        scan(k) ==
            IF k > Len(groups(script)) THEN PlanetOf(script)
            ELSE IF moon_name \in groups(script)[k].moons
            THEN groups(script)[k].name
            ELSE scan(k + 1)
    IN  scan(1)

\* orbit.parent after the loop body of a moon (lines 220-234): the curve is
\* created with the planet as parent; the groups are scanned in order and
\* the first whose list has the name gives the parent, looked up by the
\* group's name; a curve still parented to the planet goes to 'Recent'.
OrbitParent(script, moon_name) ==
    LET RECURSIVE scan(_)
        scan(k) ==
            IF k > Len(groups(script)) THEN PlanetOf(script)
            ELSE IF moon_name \in groups(script)[k].moons
            THEN groups(script)[k].name
            ELSE scan(k + 1)
        parent == scan(1)
    IN  IF parent = PlanetOf(script) THEN group_objects(script, "Recent")
        ELSE parent

\* A moon script runs up to its moon loop (lines 1-216) on a moon table.
MoonStart(script, moons) ==
    /\ moon_pc = "none"
    /\ moon_pc' = "loop"
    /\ moon_script' = script
    /\ moon_list' = moons
    /\ moon_index' = 0
    /\ orbit_parent' = EmptyMap
    /\ UNCHANGED << main_vars, thread_vars, orbital_points_cache, calc_vars >>

\* One iteration of the moon loop (lines 220-234).
MoonOrbit ==
    /\ moon_pc = "loop"
    /\ moon_index < Len(moon_list)
    /\ LET moon_name == moon_list[moon_index + 1]
       IN  orbit_parent' =
               orbit_parent @@ (moon_name :> OrbitParent(moon_script, moon_name))
    /\ moon_index' = moon_index + 1
    /\ moon_pc' = IF moon_index + 1 = Len(moon_list) THEN "done" ELSE "loop"
    /\ UNCHANGED << main_vars, thread_vars, orbital_points_cache, calc_vars,
                    moon_script, moon_list >>

NextMoons ==
    \/ \E script \in MoonScripts :
          \E moons \in MoonLists(script) : MoonStart(script, moons)
    \/ MoonOrbit

\* A moon script run on a moon table.
SpecMoons == Init /\ [][NextMoons]_vars

\* ------------------------------------------------------------------------
\* Properties
\* ------------------------------------------------------------------------

\* The distance at the current point of the running refinement.
CurrentDistance ==
    Distance(precomputed_planet_data[call.planet1],
             precomputed_planet_data[call.planet2],
             current_theta1, current_theta2)

\* The distance at the seed of the running refinement.
SeedDistance ==
    Distance(precomputed_planet_data[call.planet1],
             precomputed_planet_data[call.planet2],
             seed_thetas[1], seed_thetas[2])

\* This step is an iteration of the loop that ran to its end (it did not
\* raise).
IterationDone == LoopRuns /\ pc' = "refine" /\ iteration' = iteration + 1

\* The last call is a completed one of the given function.
Completed(op) == pc = "idle" /\ call.op = op /\ signal = "none" /\ Len(ret) = 1

\* C1: in the minimum search of refine_extremum the distance at the current
\* point never increases from one loop iteration to the next.
MinimumSearchNonIncreasing ==
    [][ (IterationDone /\ is_minimum) => CurrentDistance' <= CurrentDistance ]_vars

\* C1 witness: a minimum search has moved to a strictly closer point.
MinimumSearchMoved ==
    /\ pc = "refine"
    /\ is_minimum
    /\ iteration >= 1
    /\ CurrentDistance < SeedDistance

\* C2: in the maximum search of refine_extremum the distance at the current
\* point never decreases from one loop iteration to the next.
MaximumSearchNonDecreasing ==
    [][ (IterationDone /\ ~is_minimum) => CurrentDistance' >= CurrentDistance ]_vars

\* C3: every call terminates: the loop never starts more than `steps`
\* iterations, an iteration that ends the loop is the last of the budget or
\* one that halved the step below the floor without moving, and a running
\* call always comes back to the caller.
RefinementTerminates ==
    /\ [](pc = "refine" => iteration <= steps)
    /\ [][ (IterationDone /\ ~LoopRuns')
             => \/ iteration' = steps
                \/ /\ 2 * step_size' = step_size
                   /\ step_size' < Floor
                   /\ current_theta1' = current_theta1
                   /\ current_theta2' = current_theta2 ]_vars
    /\ [](pc = "refine" => <>(pc = "idle"))

\* C3 witness: a direct call has returned after leaving the loop through the
\* floor, before its budget was used up.
RefinementStoppedAtFloor ==
    /\ Completed("refine_extremum")
    /\ stopped
    /\ iteration < steps

\* C4: a sampling request with fewer than two samples is rejected: it
\* raises, returns no sequence, evaluates no position and stores nothing.
InvalidResolutionRejected ==
    (pc = "idle" /\ call.op = "get_orbital_points" /\ call.num_points < 2)
        => /\ signal # "none"
           /\ ret = << >>
           /\ computed = 0
           /\ cache_key(call.planet1, call.num_points)
                  \notin DOMAIN orbital_points_cache

\* 0 <= e < 1
ValidEccentricity(e) == 0 <= e /\ e < Milli

\* C5: for elements whose eccentricity is outside [0, 1) no trig record is
\* precomputed, no sample sequence is stored and no solve returns a result.
InvalidEccentricityRejected ==
    \A name \in PlanetNames :
        ~ValidEccentricity(planets[name].e)
            => /\ name \notin DOMAIN precomputed_planet_data
               /\ \A n \in SampleCounts :
                      cache_key(name, n) \notin DOMAIN orbital_points_cache
               /\ ~(/\ call.op \in { "find_min_max_distance_points",
                                     "refine_extremum" }
                    /\ name \in { call.planet1, call.planet2 }
                    /\ Len(ret) = 1)

CacheHit ==
    /\ pc = "idle"
    /\ ncalls' = ncalls + 1
    /\ call'.op = "get_orbital_points"
    /\ cache_key(call'.planet1, call'.num_points) \in DOMAIN orbital_points_cache

\* C7: a call of get_orbital_points whose (name, n) was sampled before
\* returns the stored sequence, evaluates no position, leaves the cache as
\* it is, and the sequence is the one a fresh computation produces.
CacheHitReturnsStored ==
    [][ CacheHit =>
          LET key == cache_key(call'.planet1, call'.num_points)
          IN  /\ signal' = "none"
              /\ computed' = 0
              /\ orbital_points_cache' = orbital_points_cache
              /\ ret' = << PointsValue(orbital_points_cache[key]) >>
              /\ ret'[1].points = PointList(precomputed_planet_data[call'.planet1],
                                     linspace(call'.num_points)) ]_vars

\* C7 witness: a second call for the same key has returned a sequence of at
\* least two samples without evaluating a position.
SecondCallServedFromCache ==
    /\ Completed("get_orbital_points")
    /\ call.num_points >= 2
    /\ ncalls >= 2
    /\ computed = 0
    /\ Len(ret[1].points) = call.num_points

\* The two orbits of the running or last call have the same elements.
IdenticalOrbits == planets[call.planet1] = planets[call.planet2]

\* C8: for two geometrically identical orbits the minimum refinement starts
\* at a zero-distance pair and stays on zero-distance pairs, and the solve
\* returns min_distance = 0.
IdenticalOrbitsMinimumZero ==
    /\ (pc = "refine" /\ caller = "find_min" /\ IdenticalOrbits)
           => (SeedDistance = 0 /\ CurrentDistance = 0)
    /\ (Completed("find_min_max_distance_points") /\ IdenticalOrbits)
           => ret[1].result.min_distance = 0

\* C8 witness: a solve of two identical orbits under different names has
\* returned.
IdenticalPairSolved ==
    /\ Completed("find_min_max_distance_points")
    /\ IdenticalOrbits
    /\ call.planet1 # call.planet2

\* The represented distance is within tol of d (0 <= tol <= d).
Near(sq, d, tol) == Sq(d - tol) <= sq /\ sq <= Sq(d + tol)

\* The last call is a completed solve of an orbit against itself (or against
\* an orbit with the same elements), the eccentricity being valid.
SelfSolved ==
    /\ Completed("find_min_max_distance_points")
    /\ IdenticalOrbits
    /\ ValidEccentricity(planets[call.planet1].e)

\* C9, as stated: an orbit compared to itself yields max_distance equal to
\* twice the aphelion distance a(1 + e) when e > 0 (here: to within 0.5 %),
\* and max_distance = 0 when e = 0.
SelfMaximumTwiceAphelion ==
    SelfSolved =>
        LET el == planets[call.planet1]
            aphelion == RDiv(el.a * (Milli + el.e), Milli)
        IN  IF el.e > 0
            THEN Near(ret[1].result.max_distance, 2 * aphelion, (2 * aphelion) \div 200)
            ELSE ret[1].result.max_distance = 0

\* C9, amended: an orbit compared to itself yields max_distance close to its
\* major axis 2a, for e > 0 and for e = 0 alike: not above 2a by more than
\* the rounding of the coordinates (0.1 %), and not below it by more than
\* 0.5 %.
SelfMaximumIsMajorAxis ==
    SelfSolved =>
        LET major == 2 * planets[call.planet1].a
        IN  /\ ret[1].result.max_distance <= Sq(major + major \div 1000)
            /\ ret[1].result.max_distance >= Sq(major - major \div 200)

\* C9 witness: an eccentric orbit has been solved against itself.
EccentricSelfSolved ==
    /\ SelfSolved
    /\ call.planet1 = call.planet2
    /\ planets[call.planet1].e > 0

\* The last call is a completed solve of two concentric circles of
\* different radii in one plane, with the same periapsis argument.
ConcentricSolved ==
    /\ Completed("find_min_max_distance_points")
    /\ LET el1 == planets[call.planet1]
           el2 == planets[call.planet2]
       IN  /\ el1.e = 0 /\ el2.e = 0
           /\ el1.inc = el2.inc /\ el1.node = el2.node /\ el1.peri = el2.peri
           /\ el1.a # el2.a

\* C10, as stated: two concentric circles yield min_distance = |a1 - a2| and
\* max_distance = a1 + a2.
ConcentricCirclesExact ==
    ConcentricSolved =>
        LET a1 == planets[call.planet1].a
            a2 == planets[call.planet2].a
        IN  /\ ret[1].result.min_distance = Sq(Abs(a1 - a2))
            /\ ret[1].result.max_distance = Sq(a1 + a2)

\* C10, amended: two concentric circles yield min_distance and max_distance
\* within 0.1 % of a1 + a2 of |a1 - a2| and a1 + a2, whatever the periapsis
\* argument is.
ConcentricCirclesApproximate ==
    ConcentricSolved =>
        LET a1 == planets[call.planet1].a
            a2 == planets[call.planet2].a
            tol == (a1 + a2) \div 1000
        IN  /\ Near(ret[1].result.min_distance, Abs(a1 - a2), tol)
            /\ Near(ret[1].result.max_distance, a1 + a2, tol)

\* C10 witness: two concentric circles with a periapsis argument other than
\* zero have been solved.
RotatedConcentricSolved ==
    /\ ConcentricSolved
    /\ planets[call.planet1].peri # 0

\* C11: in the result of find_min_max_distance_points the returned angles
\* are the ones the two refinements returned, each returned point is
\* calculate_point_on_orbit at the returned angle of its orbit, and
\* min_distance and max_distance are the distances between the returned
\* points.
ResultRecomputedAtRefinedAngles ==
    Completed("find_min_max_distance_points") =>
        LET r == ret[1].result
            data1 == precomputed_planet_data[call.planet1]
            data2 == precomputed_planet_data[call.planet2]
        IN  /\ << r.min_theta1, r.min_theta2 >> = min_thetas
            /\ << r.max_theta1, r.max_theta2 >> = << current_theta1, current_theta2 >>
            /\ r.min_point1 = calculate_point_on_orbit(data1, r.min_theta1)
            /\ r.min_point2 = calculate_point_on_orbit(data2, r.min_theta2)
            /\ r.max_point1 = calculate_point_on_orbit(data1, r.max_theta1)
            /\ r.max_point2 = calculate_point_on_orbit(data2, r.max_theta2)
            /\ r.min_distance = Length(r.min_point1, r.min_point2)
            /\ r.max_distance = Length(r.max_point1, r.max_point2)

\* C11 witness: a solve has returned a minimum whose angles, points and
\* distance are not those of the coarse seed: the points are no cached
\* samples and the distance is no entry of the coarse matrix.
ResultOffTheCoarseGrid ==
    /\ Completed("find_min_max_distance_points")
    /\ << ret[1].result.min_theta1, ret[1].result.min_theta2 >> # coarse.min_thetas
    /\ ret[1].result.min_distance < coarse.min_distance
    /\ \A k \in 1..NUM_POINTS :
           ret[1].result.min_point1
               # orbital_points_cache[cache_key(call.planet1, NUM_POINTS)][k]

\* The trig record of the elements the name has now.
FreshRecord(name) == precompute_trig_values(elements[name])

\* C12: after a change of the elements of a name, every call works from the
\* rebuilt trig record: a completed call finds the records of its orbits
\* equal to the records of their present elements, a sampling call returns
\* the samples of the present elements, and a solve returns positions of the
\* present elements.
ElementChangeRebuildsRecord ==
    /\ Completed("get_orbital_points") =>
           /\ precomputed_planet_data[call.planet1] = FreshRecord(call.planet1)
           /\ ret[1].points = PointList(FreshRecord(call.planet1),
                                        linspace(call.num_points))
    /\ Completed("find_min_max_distance_points") =>
           /\ precomputed_planet_data[call.planet1] = FreshRecord(call.planet1)
           /\ precomputed_planet_data[call.planet2] = FreshRecord(call.planet2)
           /\ ret[1].result.min_point1 =
                  calculate_point_on_orbit(FreshRecord(call.planet1),
                                           ret[1].result.min_theta1)
           /\ ret[1].result.max_point2 =
                  calculate_point_on_orbit(FreshRecord(call.planet2),
                                           ret[1].result.max_theta2)

\* C13: each key of the sampler cache is stored at most once, also with
\* several threads calling get_orbital_points for the same (name, n) at
\* once, and all callers of one (name, n) get sequences with the same
\* values.
CacheWrittenOncePerKey ==
    /\ \A key \in DOMAIN thread_writes : thread_writes[key] <= 1
    /\ \A t, u \in Threads :
           (/\ thread_pc[t] = "done" /\ thread_pc[u] = "done"
            /\ thread_args[t] = thread_args[u])
               => thread_ret[t] = thread_ret[u]

\* The last call is a completed direct position call for a circular orbit.
CircularPointComputed ==
    /\ call.op \in { "calculate_point_on_orbit", "calculate_orbit_point" }
    /\ signal = "none"
    /\ Len(ret) = 1
    /\ elements[call.planet1].e = 0

\* C14: for e = 0 the radius r = a(1 - e^2) / (1 + e cos v) computed by
\* either position function equals a at every true anomaly, and the returned
\* position is at distance a from the focus (to within the rounding of the
\* coordinates, 0.3 % here).
CircularRadiusIsSemiMajorAxis ==
    CircularPointComputed =>
        LET a == elements[call.planet1].a
        IN  /\ point_r = << a >>
            /\ Near(Length(ret[1].point, << 0, 0, 0 >>), a, (3 * a) \div 1000)

\* C14 witness: the radius of a tilted circular orbit has been computed away
\* from the periapsis direction.
TiltedCircularPointComputed ==
    /\ CircularPointComputed
    /\ elements[call.planet1].inc # 0
    /\ point_anomaly \notin { 0, Pi, TwoPi }
    /\ ret[1].point[3] # 0

\* The distances at the eight neighbors of the current point of the running
\* refinement.
NeighborDistances ==
    { Distance(precomputed_planet_data[call.planet1],
               precomputed_planet_data[call.planet2],
               Wrap(current_theta1 + Offsets(step_size)[k][1]),
               Wrap(current_theta2 + Offsets(step_size)[k][2])) :
          k \in (1..9) \ { 5 } }

\* Some neighbor strictly improves on the current point: strictly closer in
\* the minimum search, strictly farther in the maximum search.
SomeNeighborImproves ==
    \E d \in NeighborDistances :
        IF is_minimum THEN d < CurrentDistance ELSE d > CurrentDistance

\* This step changes the current point.
PointMoves ==
    << current_theta1', current_theta2' >> # << current_theta1, current_theta2 >>

\* C15: an iteration of refine_extremum changes the current point only if
\* some neighbor strictly improves on it; the point then moves to a best
\* neighbor and the step size stays as it is.
MovesOnlyToStrictImprovement ==
    [][ (IterationDone /\ PointMoves) =>
          /\ SomeNeighborImproves
          /\ CurrentDistance' \in NeighborDistances
          /\ \A d \in NeighborDistances :
                 IF is_minimum THEN CurrentDistance' <= d
                               ELSE CurrentDistance' >= d
          /\ step_size' = step_size ]_vars

\* C16: an iteration of refine_extremum in which no neighbor improves on the
\* current point, in the minimum or in the maximum search, leaves the two
\* angles as they are and halves the step size.
NoImprovementHalvesStep ==
    [][ (IterationDone /\ ~SomeNeighborImproves) =>
          /\ ~PointMoves
          /\ 2 * step_size' = step_size ]_vars

\* The exact offset sums current + dt of the eight neighbors, as pairs.
OffsetSums ==
    { << current_theta1 + Offsets(step_size)[k][1],
         current_theta2 + Offsets(step_size)[k][2] >> : k \in (1..9) \ { 5 } }

\* The angle is the sum brought into the revolution by a whole number of
\* turns (to within the rounding of one float operation), not by clamping.
WrapsSum(angle, sum) ==
    \E turns \in { -1, 0, 1 } : Abs(angle - (sum + turns * TwoPi)) <= 1

\* In this iteration every neighbor angle is its offset sum wrapped, and a
\* move goes to one of the neighbor angle pairs.
NeighborsWrapped ==
    /\ \A sum \in OffsetSums :
           /\ WrapsSum(Wrap(sum[1]), sum[1])
           /\ WrapsSum(Wrap(sum[2]), sum[2])
    /\ PointMoves =>
           << current_theta1', current_theta2' >>
               \in { << Wrap(sum[1]), Wrap(sum[2]) >> : sum \in OffsetSums }

\* C17, as stated: every neighbor angle evaluated by refine_extremum, and
\* both current angles after a move, lie in [0, 2*pi), the offset sums being
\* wrapped modulo 2*pi and not clamped.
AnglesWrapBelowTwoPi ==
    [][ IterationDone =>
          /\ NeighborsWrapped
          /\ \A sum \in OffsetSums :
                 /\ 0 <= Wrap(sum[1]) /\ Wrap(sum[1]) < TwoPi
                 /\ 0 <= Wrap(sum[2]) /\ Wrap(sum[2]) < TwoPi
          /\ PointMoves =>
                 /\ 0 <= current_theta1' /\ current_theta1' < TwoPi
                 /\ 0 <= current_theta2' /\ current_theta2' < TwoPi ]_vars

\* C17, amended: every neighbor angle evaluated by refine_extremum, and both
\* current angles after a move, lie in [0, 2*pi], the offset sums being
\* wrapped modulo 2*pi and not clamped; an angle is 2*pi itself only where
\* the offset sum is negative and within rounding of 0.
AnglesWrapUpToTwoPi ==
    [][ IterationDone =>
          /\ NeighborsWrapped
          /\ \A sum \in OffsetSums : \A i \in 1..2 :
                 /\ 0 <= Wrap(sum[i]) /\ Wrap(sum[i]) <= TwoPi
                 /\ Wrap(sum[i]) = TwoPi => (-1 <= sum[i] /\ sum[i] < 0)
          /\ PointMoves =>
                 /\ 0 <= current_theta1' /\ current_theta1' <= TwoPi
                 /\ 0 <= current_theta2' /\ current_theta2' <= TwoPi ]_vars

\* C17 witness: a refinement has stepped below 0 from a seed inside the
\* revolution and its current angle is 2*pi itself.
SteppedBelowZeroOntoTwoPi ==
    /\ pc = "refine"
    /\ iteration >= 1
    /\ \/ seed_thetas[1] < StepDefault /\ current_theta1 = TwoPi
       \/ seed_thetas[2] < StepDefault /\ current_theta2 = TwoPi

\* The samples of the two orbits of the running solve, as the cache holds
\* them.
SolveSamples(i) ==
    orbital_points_cache[
        cache_key(IF i = 1 THEN call.planet1 ELSE call.planet2, NUM_POINTS)]

\* The distances of all pairs (i, j) of samples of the running solve.
AllPairDistances ==
    { Length(SolveSamples(1)[i], SolveSamples(2)[j]) :
          i \in 1..NUM_POINTS, j \in 1..NUM_POINTS }

\* C18: the minimum refinement of a solve is seeded with the angles of an
\* index pair whose distance is the smallest over all pairs (i, j) of
\* samples, the maximum refinement with those of a pair whose distance is
\* the largest.
CoarseSeedsAreGlobalExtremes ==
    (pc = "refine" /\ caller \in { "find_min", "find_max" }) =>
        LET idx == IF caller = "find_min" THEN coarse.min_idx ELSE coarse.max_idx
            theta_values == linspace(NUM_POINTS)
        IN  /\ idx[1] \in 0..(NUM_POINTS - 1)
            /\ idx[2] \in 0..(NUM_POINTS - 1)
            /\ seed_thetas = << theta_values[idx[1] + 1], theta_values[idx[2] + 1] >>
            /\ SeedDistance =
                   Length(SolveSamples(1)[idx[1] + 1], SolveSamples(2)[idx[2] + 1])
            /\ \A d \in AllPairDistances :
                   IF caller = "find_min" THEN SeedDistance <= d
                                          ELSE SeedDistance >= d

\* C18 witness: the maximum refinement of a solve has been seeded, both
\* extremes lying off the first row and the first column of the matrix.
SeedsInsideTheMatrix ==
    /\ pc = "refine"
    /\ caller = "find_max"
    /\ iteration = 0
    /\ coarse.min_idx[1] > 0 /\ coarse.min_idx[2] > 0
    /\ coarse.max_idx[1] > 0 /\ coarse.max_idx[2] > 0

\* The index pairs (0-based) of the running solve whose samples are at the
\* given distance.
PairsAtDistance(d) ==
    { idx \in (0..(NUM_POINTS - 1)) \X (0..(NUM_POINTS - 1)) :
          Length(SolveSamples(1)[idx[1] + 1], SolveSamples(2)[idx[2] + 1]) = d }

\* idx comes no later than other in row-major order.
RowMajorFirst(idx, other) ==
    idx[1] < other[1] \/ (idx[1] = other[1] /\ idx[2] <= other[2])

\* C19: among the index pairs that share the minimum (the maximum) distance
\* the coarse phase picks the first in row-major order: the lowest i, and
\* for that i the lowest j.
CoarseTieBreakRowMajor ==
    (pc = "refine" /\ caller \in { "find_min", "find_max" }) =>
        /\ \A other \in PairsAtDistance(coarse.min_distance) :
               RowMajorFirst(coarse.min_idx, other)
        /\ \A other \in PairsAtDistance(coarse.max_distance) :
               RowMajorFirst(coarse.max_idx, other)
        /\ coarse.min_idx \in PairsAtDistance(coarse.min_distance)
        /\ coarse.max_idx \in PairsAtDistance(coarse.max_distance)

\* C19 witness: a solve whose minimum and whose maximum are each shared by
\* several index pairs, the ties of the maximum lying in different rows.
CoarseExtremesTied ==
    /\ pc = "refine"
    /\ caller = "find_min"
    /\ Cardinality(PairsAtDistance(coarse.min_distance)) >= 2
    /\ \E other \in PairsAtDistance(coarse.max_distance) :
           other[1] > coarse.max_idx[1]

\* In the running solve the sample at index k (0-based) of orbit i was
\* computed at the true anomaly theta.
SampleComputedAt(i, k, theta) ==
    SolveSamples(i)[k + 1] =
        calculate_point_on_orbit(
            precomputed_planet_data[IF i = 1 THEN call.planet1 ELSE call.planet2],
            theta)

\* C20: in a solve each orbit has NUM_POINTS samples, the angle the solver
\* assigns to a coarse index is the true anomaly its sample was computed
\* at (for the indices of the two seeds, as the solver assigned them, and
\* for every index k, sample k being the one at the k-th of NUM_POINTS
\* equally spaced values from 0 to 2*pi).
SolverAnglesMatchSamples ==
    (pc = "refine" /\ caller \in { "find_min", "find_max" }) =>
        /\ Len(SolveSamples(1)) = NUM_POINTS
        /\ Len(SolveSamples(2)) = NUM_POINTS
        /\ \A i \in 1..2 :
               /\ SampleComputedAt(i, coarse.min_idx[i], coarse.min_thetas[i])
               /\ SampleComputedAt(i, coarse.max_idx[i], coarse.max_thetas[i])
               /\ \A k \in 0..(NUM_POINTS - 1) :
                      SampleComputedAt(i, k, linspace(NUM_POINTS)[k + 1])

\* C20 witness: a solve runs on samples cached by an earlier call, its
\* seeds being samples other than the first and the last.
SolveSeededFromCachedSamples ==
    /\ pc = "refine"
    /\ caller = "find_min"
    /\ computed = 0
    /\ coarse.min_idx[1] \in 1..(NUM_POINTS - 2)
    /\ coarse.max_idx[2] \in 1..(NUM_POINTS - 2)

\* The distinct positions among the returned samples.
DistinctPositions(points) == { points[k] : k \in 1..Len(points) }

\* C21: get_orbital_points(name, n) returns n positions, sample k (k =
\* 0..n-1) at true anomaly k*2*pi/(n-1), so that the first and the last
\* sample are one and the same position and n-1 distinct positions are
\* sampled.
SamplerDoubleCountsBoundary ==
    Completed("get_orbital_points") =>
        LET n == call.num_points
            points == ret[1].points
            data == precomputed_planet_data[call.planet1]
        IN  /\ Len(points) = n
            /\ n >= 2 =>
                   \A k \in 0..(n - 1) :
                       points[k + 1] = calculate_point_on_orbit(
                           data, FloatRound(RDiv(k * TwoPi, n - 1)))
            /\ n >= 1 => points[1] = points[n]
            /\ Cardinality(DistinctPositions(points)) = n - 1

\* The last call is a direct position call that has returned or raised.
PointCallOver ==
    /\ pc = "idle"
    /\ call.op \in { "calculate_point_on_orbit", "calculate_orbit_point",
                     "create_orbital_curve" }
    /\ point_scale = 1

\* Two calls ended alike: both raised, or both returned the same finite
\* position (a nan is equal to nothing).
SameOutcome(out1, out2) ==
    /\ out1[1] = out2[1]
    /\ ~out1[1] => /\ out1[2] = out2[2]
                   /\ out1[2] # NaNPoint

\* C22: for the same elements and true anomaly the three position functions
\* (the curve of the moon scripts at scale factor 1) give the same position,
\* which is the rotation by the periapsis argument, then by the inclination,
\* then by the node, of the point of the orbital plane.
PositionFunctionsAgree ==
    PointCallOver =>
        \A function \in { "calculate_point_on_orbit", "calculate_orbit_point",
                          "create_orbital_curve" } :
            SameOutcome(<< signal # "none",
                           IF Len(ret) = 1 THEN ret[1].point ELSE << >> >>,
                        PointCall(function, precomputed_planet_data, elements,
                                  call.planet1, point_anomaly, 1))

\* The running refine_extremum was called with the default steps and
\* step_size.
DefaultParameters == steps = StepsDefault /\ seed_step = StepDefault

\* C23: with the default parameters refine_extremum never leaves its loop
\* through the convergence floor: the step size stays at least the default
\* over 32, which is above the floor, and the loop is left only after
\* exactly 5 iterations.
DefaultRunNeverReachesFloor ==
    (pc = "refine" /\ DefaultParameters)
        => /\ ~stopped
           /\ 32 * step_size >= StepDefault
           /\ ~BelowFloor(step_size)
           /\ LoopOver => iteration = 5

\* C23 witness: a run with the default parameters is over after halving the
\* step in every one of its iterations.
DefaultRunHalvedFiveTimes ==
    /\ pc = "refine"
    /\ DefaultParameters
    /\ LoopOver
    /\ 32 * step_size = StepDefault

\* The difference of two angles measured around the circle, the shorter way.
CircularDifference(theta, other) ==
    LET d == Abs(theta - other) % TwoPi
    IN  IF 2 * d > TwoPi THEN TwoPi - d ELSE d

ScanOrder(s) ==
    << << -s, -s >>, << -s, 0 >>, << -s, s >>, << 0, -s >>, << 0, s >>,
       << s, -s >>, << s, 0 >>, << s, s >> >>

\* The k-th neighbor of the current point in scan order, and its distance.
NeighborAt(k) ==
    << Wrap(current_theta1 + ScanOrder(step_size)[k][1]),
       Wrap(current_theta2 + ScanOrder(step_size)[k][2]) >>

NeighborDistanceAt(k) ==
    Distance(precomputed_planet_data[call.planet1],
             precomputed_planet_data[call.planet2],
             NeighborAt(k)[1], NeighborAt(k)[2])

\* The neighbors no other neighbor is better than.
BestNeighbors ==
    { k \in 1..8 :
        \A j \in 1..8 :
            IF is_minimum THEN NeighborDistanceAt(k) <= NeighborDistanceAt(j)
                          ELSE NeighborDistanceAt(k) >= NeighborDistanceAt(j) }

FirstBestNeighbor == CHOOSE k \in BestNeighbors : \A j \in BestNeighbors : k <= j

\* C25: an iteration of refine_extremum that moves the point moves it to
\* the first, in scan order, of the neighbors that are equally the best.
MovesToFirstBestInScanOrder ==
    [][ (IterationDone /\ PointMoves) =>
          << current_theta1', current_theta2' >> = NeighborAt(FirstBestNeighbor)
      ]_vars

\* C25 witness: an iteration on two orbits of valid eccentricity is about to
\* move the point and more than one neighbor is the best.
TiedBestNeighbors ==
    /\ LoopRuns
    /\ ~IterationRaises(precomputed_planet_data[call.planet1],
                        precomputed_planet_data[call.planet2],
                        current_theta1, current_theta2, step_size)
    /\ ValidEccentricity(elements[call.planet1].e)
    /\ ValidEccentricity(elements[call.planet2].e)
    /\ Cardinality(BestNeighbors) >= 2
    /\ BestThetas(precomputed_planet_data[call.planet1],
                  precomputed_planet_data[call.planet2],
                  current_theta1, current_theta2, is_minimum, step_size)
           # << current_theta1, current_theta2 >>

\* C26: the script reports every pair of its list without raising, a pair
\* of identical orbits with min_distance 0 included: when it is over, every
\* pair has its result and its row of the summary table, with the ratio
\* max_distance / min_distance.
ScriptReportsEveryPair ==
    /\ script_pc # "raised"
    /\ script_pc = "done" =>
           /\ Len(distance_results) = Len(script_pairs)
           /\ Len(summary_table) = Len(script_pairs)

\* The pairs of planets in solar-system order, the origin before the
\* destination.
OrderedPairs ==
    { << planet_order[p[1]], planet_order[p[2]] >> :
          p \in { q \in (1..Len(planet_order)) \X (1..Len(planet_order)) :
                      q[1] < q[2] } }

\* The routes of the rows of a list.
RoutesOf(rows) == { << rows[k].origin, rows[k].destination >> : k \in 1..Len(rows) }

\* C27: main() never ends with an exception, and when it is over the CSV
\* file holds the header and 45 rows: one for each of the 36 pairs of
\* planets in solar-system order and one Alpha Centauri route from each of
\* the 9 planets.
MainWritesAllRoutes ==
    /\ calc_pc # "raised"
    /\ calc_pc = "done" =>
           /\ csv_file.written
           /\ csv_file.columns = HeaderColumns
           /\ Len(csv_file.rows) = 45
           /\ RoutesOf(csv_file.rows) =
                  OrderedPairs \cup
                  { << planet_order[i], "Alpha Centauri" >> :
                        i \in 1..Len(planet_order) }

\* A planet value of the claim: 0 < perihelion <= aphelion.
IsOrbit(p) == 0 < p.perihelion /\ p.perihelion <= p.aphelion

\* The ranges [perihelion, aphelion] of two planets have a point in common.
RangesOverlap(p1, p2) ==
    p1.perihelion <= p2.aphelion /\ p2.perihelion <= p1.aphelion

\* The gap between two ranges that do not overlap.
RangeGap(p1, p2) ==
    IF p1.aphelion < p2.perihelion THEN p2.perihelion - p1.aphelion
    ELSE p1.perihelion - p2.aphelion

\* The last direct call of get_orbital_distances was on two orbits.
DistancesOfOrbits ==
    /\ Len(calc_call) = 2
    /\ IsOrbit(calc_call[1])
    /\ IsOrbit(calc_call[2])

\* C28: for two planets with 0 < perihelion <= aphelion,
\* get_orbital_distances returns min_dist 0 when the ranges overlap and the
\* gap between them otherwise, max_dist the sum of the aphelia, the same
\* for the arguments in the other order, and 0 <= min_dist <= max_dist.
OrbitalDistancesOfRanges ==
    DistancesOfOrbits =>
        LET p1 == calc_call[1]
            p2 == calc_call[2]
        IN  /\ calc_ret[1] = IF RangesOverlap(p1, p2) THEN 0
                             ELSE RangeGap(p1, p2)
            /\ calc_ret[2] = p1.aphelion + p2.aphelion
            /\ calc_ret = get_orbital_distances(p2, p1)
            /\ 0 <= calc_ret[1]
            /\ calc_ret[1] <= calc_ret[2]

\* C28 witness: the distances of two orbits that lie apart have been
\* computed, and the minimum is their gap.
DistancesOfSeparateOrbits ==
    /\ DistancesOfOrbits
    /\ ~RangesOverlap(calc_call[1], calc_call[2])
    /\ calc_ret[1] > 0

\* The groups of the running script whose moon list has the name, by their
\* place in the declaration.
GroupsListing(moon_name) ==
    { k \in 1..Len(groups(moon_script)) : moon_name \in groups(moon_script)[k].moons }

\* The names of the group empties of the running script.
GroupNames == { groups(moon_script)[k].name : k \in 1..Len(groups(moon_script)) }

\* C29: after the moon loop every moon's orbit curve has one parent, a
\* group empty and not the planet: the first group in declaration order
\* whose moon list has the moon's name, or the 'Recent' group when no list
\* has it.
OrbitsParentedToGroups ==
    moon_pc = "done" =>
        \A i \in 1..Len(moon_list) :
            LET moon_name == moon_list[i]
                listing == GroupsListing(moon_name)
            IN  /\ moon_name \in DOMAIN orbit_parent
                /\ orbit_parent[moon_name] \in GroupNames
                /\ orbit_parent[moon_name] # PlanetOf(moon_script)
                /\ IF listing = { }
                   THEN orbit_parent[moon_name] =
                            group_objects(moon_script, "Recent")
                   ELSE \E k \in listing :
                            /\ \A j \in listing : k <= j
                            /\ orbit_parent[moon_name] =
                                   groups(moon_script)[k].name

\* C29 witness: a moon loop is over on a table with a moon that no list
\* has and a moon that two lists have.
UnlistedAndTwiceListedMoons ==
    /\ moon_pc = "done"
    /\ \E i \in 1..Len(moon_list) : GroupsListing(moon_list[i]) = { }
    /\ \E i \in 1..Len(moon_list) : Cardinality(GroupsListing(moon_list[i])) = 2
====
